---- MODULE Spec2Model ----
(***************************************************************************)
(* BridgeGuard AI: the monitoring and alerting engine of backend/app.py.   *)
(*                                                                         *)
(* Numbers.  Scores and confidences are Python floats in [0,1]; they are   *)
(* modelled as integers in units of 1/100000 (0.75 is 75000).  The values  *)
(* reported in responses are percentages with two decimals,                *)
(* round(x * 100, 2), modelled in hundredths of a percent (75.0 is 7500).  *)
(* Time is time.time() in whole seconds.                                   *)
(***************************************************************************)
EXTENDS Integers, Sequences, FiniteSets, TLC

(***************************************************************************)
(* Bounds of the model.                                                    *)
(***************************************************************************)
\* The admission limit the model runs with.  The source sets RATE_LIMIT to
\* 100; check_rate_limit is parametric in it, and the model runs it with a
\* small limit so that limit+1 requests of one client fit a checked run.
LimitBound == 3
\* Requests served in one run of the pipeline specification (Spec).
MaxRequests == 3
\* Requests served in one run of the limiter specification (SpecLim).
MaxLimRequests == 5
\* Admission checks made in one run of the threaded specification (SpecConc).
MaxConcRequests == 4
\* The clock stops advancing here.
MaxTime == 61
\* _rpc_call calls made in one run of the RPC specification (SpecRpc).
MaxRpcCalls == 2
\* Node-status requests served in one run of the node specification
\* (SpecNode).
MaxNodeRequests == 2
\* The largest max_attempts given to wait_for_sync.
MaxAttempts == 3
\* Calls of start_qie_node and stop_qie_node made in one run of the process
\* specification (SpecProc).
MaxMgrCalls == 5
\* Session scopes entered in one run of the database specification (SpecDb).
MaxUnits == 2
\* Statements run by the bodies of the session scopes of one run, the steps
\* of the seeding apart.
MaxSteps == 4
\* The rows each seeding function of SeedData creates.  seed_all asks for 3
\* bridges, 5 validators and 15 transactions; the functions are parametric
\* in the count, and the model runs them with a small one.
SeedCount == 1

(***************************************************************************)
(* Program constants.                                                      *)
(***************************************************************************)
RATE_LIMIT == LimitBound
WINDOW == 60
VALID_THRESHOLD == 75000
CRITICAL_ABOVE == 80000
HIGH_ABOVE == 60000
MEDIUM_ABOVE == 40000
ALERT_ABOVE == 70000
MODEL_CONFIDENCE == 9250
DEFAULT_LIMIT == 20
DEFAULT_OFFSET == 0
WEBHOOK_TIMEOUT == 5
\* Retry(total=3): the retries one session.post may make after its first
\* HTTP request.
RETRY_TOTAL == 3
\* Retry(status_forcelist=[429, 500, 502, 503, 504])
STATUS_FORCELIST == {429, 500, 502, 503, 504}
RPC_URL == "http://localhost:26657"
CHAIN_ID == "qie_1990-1"

(***************************************************************************)
(* Inputs.                                                                 *)
(***************************************************************************)
Clients == {"10.0.0.1", "10.0.0.2"}
OneClient == {"10.0.0.1"}
Hashes == {"0x1", "0x2"}
\* Seconds the clock may advance between two requests.
TimeSteps == {30, 31}
\* The body of a request whose JSON is null.
NullJson == [null |-> TRUE]
\* Request threads of the server (app.run serves every request in its own
\* thread).
Threads == {"T1", "T2"}

VARIABLES
    now,                  \* time.time()
    request_counts,       \* app.py request_counts: client -> list of times
    transaction_history,  \* app.py transaction_history
    alerts_log,           \* app.py alerts_log
    WEBHOOK_URL,          \* app.py WEBHOOK_URL ("" when not configured)
    webhook_posts,        \* the requests.post calls made, with their outcome
    resp,                 \* the response of the request served last
    decisions,            \* history: every admission decision taken
    accepted,             \* history: validate-cross-chain requests answered 200
    thr,                  \* request threads inside check_rate_limit
    rpc,                  \* the _rpc_call in progress and its HTTP attempts
    health,               \* the check_node_health call made last
    wfs,                  \* the wait_for_sync call in progress
    cancel_requested,     \* the caller of wait_for_sync wants it to stop
    is_running,           \* QIENodeManager.is_running
    node_process,         \* QIENodeManager.node_process (0 is None, else a pid)
    processes,            \* the node processes spawned that are still alive
    mgr_ret,              \* what start_qie_node or stop_qie_node returned last
    query,                \* the node query made last and what it returned
    engine,               \* the database engine ("none" before it is created)
    db,                   \* the rows the database holds, committed
    sess                  \* the session scope (unit of work) in progress

appVars == <<now, request_counts, transaction_history, alerts_log, WEBHOOK_URL,
             webhook_posts, resp, decisions, accepted>>

concVars == <<thr>>

nodeVars == <<rpc, health, wfs, cancel_requested>>

mgrVars == <<is_running, node_process, processes, mgr_ret, query>>

dbVars == <<engine, db, sess>>

\* What the endpoints of app.py leave alone.
offApp == <<concVars, nodeVars, mgrVars, dbVars>>

vars == <<appVars, concVars, nodeVars, mgrVars, dbVars>>

(***************************************************************************)
(* Helpers.                                                                *)
(***************************************************************************)
\* Python's round(x * 100, 2): n is in units of 1/100000, the result
\* in hundredths of a percent; ties go to the even neighbour.
RoundPercent(n) ==
    LET q == n \div 10
        r == n % 10
    IN  IF r > 5 \/ (r = 5 /\ q % 2 = 1) THEN q + 1 ELSE q

\* generate_request_id: REQ-<milliseconds>
generate_request_id(t) == <<"REQ", t * 1000>>

success_response(data, request_id, t) ==
    [success |-> TRUE, timestamp |-> t, request_id |-> request_id, data |-> data]

error_response(message, code, request_id, t) ==
    [success |-> FALSE, timestamp |-> t, request_id |-> request_id,
     error |-> message, code |-> code]

(***************************************************************************)
(* Rate limiter.                                                           *)
(***************************************************************************)
\* (variant) a request exactly WINDOW seconds old still counts
PruneOld_Inclusive(times, t) ==
    SelectSeq(times, LAMBDA req_time : req_time >= t - WINDOW)

\* The list comprehension of check_rate_limit: the times after the cutoff.
PruneOld(times, t) == SelectSeq(times, LAMBDA req_time : req_time > t - WINDOW)

\* (variant) the time of the request is recorded before the limit is tested
check_rate_limit_RecordFirst(counts, client_id, t) ==
    LET pruned == PruneOld(counts[client_id], t)
    IN  [admit |-> Len(pruned) < RATE_LIMIT,
         counts |-> [counts EXCEPT ![client_id] = Append(pruned, t)]]

\* check_rate_limit(client_id) at time t: the decision and the new table.
check_rate_limit(counts, client_id, t) ==
    LET pruned == PruneOld(counts[client_id], t)
    IN  IF Len(pruned) >= RATE_LIMIT
        THEN [admit |-> FALSE, counts |-> [counts EXCEPT ![client_id] = pruned]]
        ELSE [admit |-> TRUE,
              counts |-> [counts EXCEPT ![client_id] = Append(pruned, t)]]

\* The rate_limit decorator around the endpoint f (an action over the other
\* variables of the application).
rate_limit(client_id, op, f) ==
    LET rl == check_rate_limit(request_counts, client_id, now)
    IN  /\ request_counts' = rl.counts
        /\ decisions' = Append(decisions,
               [client |-> client_id, time |-> now, admit |-> rl.admit])
        /\ IF rl.admit
           THEN f
           ELSE /\ resp' = [op |-> op, client |-> client_id, status |-> 429, raw |-> -1,
                            body |-> [error |-> "Rate limit exceeded",
                                      code |-> "RATE_LIMIT"]]
                /\ UNCHANGED <<transaction_history, alerts_log, webhook_posts,
                               accepted>>

(***************************************************************************)
(* Request validation (pydantic models).                                   *)
(***************************************************************************)
HasFields(data, fields) == data # NullJson /\ fields \subseteq DOMAIN data

\* ValidationRequest(**data) succeeds.
ValidationRequestOk(data) ==
    /\ HasFields(data, {"transaction_hash", "source_chain", "dest_chain", "amount"})
    /\ data.amount > 0

(***************************************************************************)
(* Endpoints.                                                              *)
(***************************************************************************)
\* (variant) the threshold itself counts as valid
IsValid_Inclusive(confidence) == confidence >= VALID_THRESHOLD

\* is_valid = confidence > 0.75
IsValid(confidence) == confidence > VALID_THRESHOLD

\* (variant) a transaction already in the history is not recorded again
RecordValidation_Idempotent(history, data) ==
    IF \E i \in 1..Len(history) : history[i].transaction_hash = data.transaction_hash
    THEN history
    ELSE Append(history, data)

\* transaction_history.append(data)
RecordValidation(history, data) == Append(history, data)

\* POST /api/v1/bridge/validate-cross-chain; confidence is what
\* random.uniform(0.7, 1.0) returns.
validate_cross_chain_body(client_id, json, confidence) ==
    LET request_id == generate_request_id(now)
        data == [transaction_hash |-> json.transaction_hash,
                 valid |-> IsValid(confidence),
                 confidence |-> RoundPercent(confidence),
                 source_chain |-> json.source_chain,
                 dest_chain |-> json.dest_chain,
                 amount |-> json.amount,
                 timestamp |-> now]
    IN  IF ~ValidationRequestOk(json)
        THEN /\ resp' = [op |-> "validate", client |-> client_id, status |-> 400,
                         raw |-> -1,
                         body |-> error_response("invalid", "VALIDATION_ERROR",
                                                 request_id, now)]
             /\ UNCHANGED <<transaction_history, alerts_log, webhook_posts, accepted>>
        ELSE /\ transaction_history' = RecordValidation(transaction_history, data)
             /\ accepted' = accepted + 1
             /\ resp' = [op |-> "validate", client |-> client_id, status |-> 200,
                         raw |-> confidence,
                         body |-> success_response(data, request_id, now)]
             /\ UNCHANGED <<alerts_log, webhook_posts>>

validate_cross_chain(client_id, json, confidence) ==
    /\ rate_limit(client_id, "validate",
                  validate_cross_chain_body(client_id, json, confidence))
    /\ UNCHANGED <<now, WEBHOOK_URL, offApp>>

SEVERITIES == {"low", "medium", "high", "critical"}

\* The order of the severities.
SeverityRank(s) ==
    CASE s = "low" -> 0 [] s = "medium" -> 1 [] s = "high" -> 2 [] s = "critical" -> 3

\* (variant) a score on a threshold takes the higher severity
Severity_Inclusive(anomaly_score) ==
    IF anomaly_score >= CRITICAL_ABOVE THEN "critical"
    ELSE IF anomaly_score >= HIGH_ABOVE THEN "high"
    ELSE IF anomaly_score >= MEDIUM_ABOVE THEN "medium"
    ELSE "low"

\* severity = "critical" if anomaly_score > 0.8 else "high" if ... else "low"
Severity(anomaly_score) ==
    IF anomaly_score > CRITICAL_ABOVE THEN "critical"
    ELSE IF anomaly_score > HIGH_ABOVE THEN "high"
    ELSE IF anomaly_score > MEDIUM_ABOVE THEN "medium"
    ELSE "low"

\* (variant) a score of exactly 0.7 alerts
RaisesAlert_Inclusive(anomaly_score) == anomaly_score >= ALERT_ABOVE

\* if anomaly_score > 0.7:
RaisesAlert(anomaly_score) == anomaly_score > ALERT_ABOVE

\* An alert record written by get_anomaly_score (one written by
\* send_anomaly_alert has no anomaly_score).
IsScoreAlert(a) == "anomaly_score" \in DOMAIN a

\* (variant) no second alert for a transaction unless its severity is higher
LogScoreAlert_Dedup(log, data, anomaly_score) ==
    IF /\ RaisesAlert(anomaly_score)
       /\ \A i \in 1..Len(log) :
            (IsScoreAlert(log[i]) /\ log[i].transaction_hash = data.transaction_hash)
                => SeverityRank(log[i].severity) < SeverityRank(data.severity)
    THEN Append(log, data)
    ELSE log

\* if anomaly_score > 0.7: alerts_log.append(data)
LogScoreAlert(log, data, anomaly_score) ==
    IF RaisesAlert(anomaly_score) THEN Append(log, data) ELSE log

\* POST /api/v1/bridge/anomaly-score; anomaly_score is what
\* random.uniform(0, 1) returns.
get_anomaly_score_body(client_id, tx_data, anomaly_score) ==
    LET request_id == generate_request_id(now)
        data == [transaction_hash |-> tx_data.transaction_hash,
                 anomaly_score |-> RoundPercent(anomaly_score),
                 severity |-> Severity(anomaly_score),
                 model_confidence |-> MODEL_CONFIDENCE,
                 timestamp |-> now]
    IN  IF ~HasFields(tx_data, {"transaction_hash"})
        THEN /\ resp' = [op |-> "anomaly", client |-> client_id, status |-> 400,
                         raw |-> -1,
                         body |-> error_response("Transaction hash required",
                                                 "MISSING_FIELD", request_id, now)]
             /\ UNCHANGED <<transaction_history, alerts_log, webhook_posts, accepted>>
        ELSE /\ alerts_log' = LogScoreAlert(alerts_log, data, anomaly_score)
             /\ resp' = [op |-> "anomaly", client |-> client_id, status |-> 200,
                         raw |-> anomaly_score,
                         body |-> success_response(data, request_id, now)]
             /\ UNCHANGED <<transaction_history, webhook_posts, accepted>>

get_anomaly_score(client_id, tx_data, anomaly_score) ==
    /\ rate_limit(client_id, "anomaly",
                  get_anomaly_score_body(client_id, tx_data, anomaly_score))
    /\ UNCHANGED <<now, WEBHOOK_URL, offApp>>

\* Python's s[start:stop] for integers start and stop.
SliceIndex(i, n) ==
    IF i < 0 THEN (IF i + n < 0 THEN 0 ELSE i + n)
    ELSE IF i > n THEN n ELSE i

PySlice(s, start, stop) ==
    LET a == SliceIndex(start, Len(s))
        b == SliceIndex(stop, Len(s))
    IN  IF a < b THEN SubSeq(s, a + 1, b) ELSE <<>>

\* A query parameter: absent, an integer literal, or text int() rejects.
ArgAbsent == [k |-> "absent", v |-> 0]
ArgInt(n) == [k |-> "int", v |-> n]
ArgBad == [k |-> "bad", v |-> 0]

\* int(request.args.get(name, default))
IntArg(arg, default) == IF arg.k = "absent" THEN default ELSE arg.v

\* GET /api/v1/bridge/history?limit&offset
get_transaction_history_body(client_id, limit_arg, offset_arg) ==
    LET request_id == generate_request_id(now)
        limit == IntArg(limit_arg, DEFAULT_LIMIT)
        offset == IntArg(offset_arg, DEFAULT_OFFSET)
        history == PySlice(transaction_history, offset, offset + limit)
        data == [total |-> Len(transaction_history), limit |-> limit,
                 offset |-> offset, transactions |-> history]
    IN  /\ IF limit_arg.k = "bad" \/ offset_arg.k = "bad"
           THEN \* int() raises ValueError: the 500 handler answers
                resp' = [op |-> "history", client |-> client_id, status |-> 500,
                         raw |-> -1,
                         body |-> error_response("Internal server error",
                                                 "INTERNAL_ERROR", request_id, now)]
           ELSE resp' = [op |-> "history", client |-> client_id, status |-> 200,
                         raw |-> -1,
                         body |-> success_response(data, request_id, now)]
        /\ UNCHANGED <<transaction_history, alerts_log, webhook_posts, accepted>>

get_transaction_history(client_id, limit_arg, offset_arg) ==
    /\ rate_limit(client_id, "history",
                  get_transaction_history_body(client_id, limit_arg, offset_arg))
    /\ UNCHANGED <<now, WEBHOOK_URL, offApp>>

\* AnomalyReportRequest(**data) succeeds.
AnomalyReportRequestOk(data) ==
    /\ HasFields(data, {"transaction_hash", "severity", "reason"})
    /\ data.severity \in SEVERITIES

\* A variant that posts a second time when the first post raised.
DispatchWebhook_Retry(posts, alert_data, outcome) ==
    LET post == [url |-> WEBHOOK_URL, json |-> alert_data,
                 timeout |-> WEBHOOK_TIMEOUT, outcome |-> outcome]
    IN  IF WEBHOOK_URL = "" THEN posts
        ELSE IF outcome = "raised" THEN Append(Append(posts, post), post)
        ELSE Append(posts, post)

\* if WEBHOOK_URL: try: requests.post(WEBHOOK_URL, json=alert_data, timeout=5)
\* One call of requests.post, outside any retrying session; outcome is what
\* the call does: it returns ("returned") or raises ("raised").
DispatchWebhook(posts, alert_data, outcome) ==
    IF WEBHOOK_URL # ""
    THEN Append(posts, [url |-> WEBHOOK_URL, json |-> alert_data,
                        timeout |-> WEBHOOK_TIMEOUT, outcome |-> outcome])
    ELSE posts

\* A variant in which the exception of requests.post reaches the outer
\* except of the endpoint.
AlertReply_Propagate(request_id, outcome, t) ==
    IF WEBHOOK_URL # "" /\ outcome = "raised"
    THEN [status |-> 400,
          body |-> error_response("Webhook error", "ALERT_ERROR", request_id, t)]
    ELSE [status |-> 200,
          body |-> success_response([alert_id |-> request_id, sent |-> TRUE],
                                    request_id, t)]

\* except Exception as e: logger.error(...), then
\* return jsonify(success_response({"alert_id": ..., "sent": True}, ...)), 200
\* The exception of requests.post is logged and dropped; the reply is the
\* same whatever the post did and whether or not it was made.
AlertReply(request_id, outcome, t) ==
    [status |-> 200,
     body |-> success_response([alert_id |-> request_id, sent |-> TRUE],
                               request_id, t)]

\* POST /api/v1/bridge/alert; outcome is what requests.post does when it is
\* called: it returns ("returned") or raises ("raised").
send_anomaly_alert_body(client_id, json, outcome) ==
    LET request_id == generate_request_id(now)
        alert_data == [transaction_hash |-> json.transaction_hash,
                       severity |-> json.severity,
                       reason |-> json.reason,
                       timestamp |-> now,
                       request_id |-> request_id]
    IN  IF json = NullJson
        THEN \* AnomalyReportRequest(**None) raises TypeError: the outer except
             /\ resp' = [op |-> "alert", client |-> client_id, status |-> 400,
                         raw |-> -1,
                         body |-> error_response("TypeError", "ALERT_ERROR",
                                                 request_id, now)]
             /\ UNCHANGED <<transaction_history, alerts_log, webhook_posts, accepted>>
        ELSE IF ~AnomalyReportRequestOk(json)
        THEN /\ resp' = [op |-> "alert", client |-> client_id, status |-> 400,
                         raw |-> -1,
                         body |-> error_response("invalid", "VALIDATION_ERROR",
                                                 request_id, now)]
             /\ UNCHANGED <<transaction_history, alerts_log, webhook_posts, accepted>>
        ELSE /\ alerts_log' = Append(alerts_log, alert_data)
             /\ webhook_posts' = DispatchWebhook(webhook_posts, alert_data, outcome)
             /\ LET reply == AlertReply(request_id, outcome, now)
                IN  resp' = [op |-> "alert", client |-> client_id,
                             status |-> reply.status, raw |-> -1,
                             body |-> reply.body]
             /\ UNCHANGED <<transaction_history, accepted>>

send_anomaly_alert(client_id, json, outcome) ==
    /\ rate_limit(client_id, "alert", send_anomaly_alert_body(client_id, json, outcome))
    /\ UNCHANGED <<now, WEBHOOK_URL, offApp>>

\* The clock advances.
Tick(d) ==
    /\ now + d <= MaxTime
    /\ now' = now + d
    /\ UNCHANGED <<request_counts, transaction_history, alerts_log, WEBHOOK_URL,
                   webhook_posts, resp, decisions, accepted, offApp>>

(***************************************************************************)
(* Inputs of the requests.                                                 *)
(***************************************************************************)
GoodValidation(h) ==
    [transaction_hash |-> h, source_chain |-> "ETH", dest_chain |-> "QIE", amount |-> 100]

BadValidations ==
    {[transaction_hash |-> "0x1", source_chain |-> "ETH", amount |-> 100],
     [transaction_hash |-> "0x1", source_chain |-> "ETH", dest_chain |-> "QIE",
      amount |-> 0],
     [transaction_hash |-> "0x1", source_chain |-> "ETH", dest_chain |-> "QIE",
      amount |-> -5],
     NullJson}

\* Values of random.uniform(0.7, 1.0).
Confidences == {70000, 75000, 75001, 99996, 100000}

\* <<request body, confidence drawn>>
ValidationInputs ==
    {<<GoodValidation("0x1"), conf>> : conf \in Confidences}
    \cup {<<GoodValidation("0x2"), 90000>>}
    \cup {<<j, 90000>> : j \in BadValidations}

\* Values of random.uniform(0, 1).
Scores == {0, 39000, 40000, 40001, 60000, 60001, 70000, 70001, 80000, 80001, 100000}

\* <<request body, anomaly score drawn>>
AnomalyInputs ==
    {<<[transaction_hash |-> "0x1"], score>> : score \in Scores}
    \cup {<<[transaction_hash |-> "0x2"], 85000>>, <<[transaction_hash |-> "0x2"], 30000>>}
    \cup {<< <<>>, 85000>>, <<NullJson, 85000>>}

GoodAlert(h, s) == [transaction_hash |-> h, severity |-> s, reason |-> "manual"]

AlertBodies ==
    {GoodAlert("0x1", s) : s \in SEVERITIES}
    \cup {GoodAlert("0x2", "critical"),
          [transaction_hash |-> "0x1", severity |-> "urgent", reason |-> "manual"],
          [transaction_hash |-> "0x1", severity |-> "high"],
          NullJson}

PostOutcomes == {"returned", "raised"}

LimitArgs == {ArgAbsent} \cup {ArgInt(n) : n \in {-1, 0, 1, 2}}
OffsetArgs == {ArgAbsent, ArgBad} \cup {ArgInt(n) : n \in {-1, 1, 2}}

(***************************************************************************)
(* check_rate_limit run by request threads.  Nothing in app.py serialises  *)
(* the calls: a thread can be suspended between evaluating the list        *)
(* comprehension, storing its result, testing the length and appending.    *)
(***************************************************************************)
Idle == [pc |-> "idle", client |-> "", now |-> 0, kept |-> <<>>]

\* now = time.time(); cutoff = now - 60
Enter(t, client_id) ==
    /\ thr[t].pc = "idle"
    /\ Len(decisions) + Cardinality({u \in Threads : thr[u].pc # "idle"})
           < MaxConcRequests
    /\ thr' = [thr EXCEPT ![t] = [pc |-> "filter", client |-> client_id,
                                  now |-> now, kept |-> <<>>]]
    /\ UNCHANGED <<appVars, nodeVars, mgrVars, dbVars>>

\* [req_time for req_time in request_counts[client_id] if req_time > cutoff]
Filter(t) ==
    /\ thr[t].pc = "filter"
    /\ thr' = [thr EXCEPT ![t].pc = "store",
                          ![t].kept = PruneOld(request_counts[thr[t].client],
                                               thr[t].now)]
    /\ UNCHANGED <<appVars, nodeVars, mgrVars, dbVars>>

\* request_counts[client_id] = <the list built>
Store(t) ==
    /\ thr[t].pc = "store"
    /\ request_counts' = [request_counts EXCEPT ![thr[t].client] = thr[t].kept]
    /\ thr' = [thr EXCEPT ![t].pc = "check"]
    /\ UNCHANGED <<now, transaction_history, alerts_log, WEBHOOK_URL, webhook_posts,
                   resp, decisions, accepted, nodeVars,
                   mgrVars, dbVars>>

\* if len(request_counts[client_id]) >= RATE_LIMIT: return False
TestLimit(t) ==
    /\ thr[t].pc = "check"
    /\ IF Len(request_counts[thr[t].client]) >= RATE_LIMIT
       THEN /\ decisions' = Append(decisions,
                    [client |-> thr[t].client, time |-> thr[t].now, admit |-> FALSE])
            /\ thr' = [thr EXCEPT ![t] = Idle]
       ELSE /\ thr' = [thr EXCEPT ![t].pc = "append"]
            /\ UNCHANGED decisions
    /\ UNCHANGED <<now, request_counts, transaction_history, alerts_log, WEBHOOK_URL,
                   webhook_posts, resp, accepted, nodeVars,
                   mgrVars, dbVars>>

\* request_counts[client_id].append(now); return True
Record(t) ==
    /\ thr[t].pc = "append"
    /\ request_counts' = [request_counts EXCEPT
           ![thr[t].client] = Append(request_counts[thr[t].client], thr[t].now)]
    /\ decisions' = Append(decisions,
           [client |-> thr[t].client, time |-> thr[t].now, admit |-> TRUE])
    /\ thr' = [thr EXCEPT ![t] = Idle]
    /\ UNCHANGED <<now, transaction_history, alerts_log, WEBHOOK_URL, webhook_posts,
                   resp, accepted, nodeVars,
                   mgrVars, dbVars>>

(***************************************************************************)
(* backend/qie_node_manager.py: the JSON-RPC client of the node.           *)
(*                                                                         *)
(* JSON values.  An object is a record, the empty object {} is the empty   *)
(* function, null is NullJson.  A block height travels as a string: a      *)
(* string of digits is Digits(n), any other string is NotDigits.           *)
(***************************************************************************)
EmptyDict == <<>>

\* Python truth of a JSON value: None and {} are false.
Truthy(v) == v # NullJson /\ v # EmptyDict

\* dict.get(key, default)
Get(d, key, default) == IF key \in DOMAIN d THEN d[key] ELSE default

\* What the node does with one HTTP request: the connection fails, the
\* response does not arrive within the timeout, or a response arrives.
ConnectError == [kind |-> "connect_error"]
ReadTimeout == [kind |-> "read_timeout"]
Response(status, body) == [kind |-> "response", status |-> status, body |-> body]

\* The body of a response: not JSON at all, or the JSON value data.
NotJson == [json |-> FALSE]
Json(data) == [json |-> TRUE, data |-> data]

\* What session.post does in the end: it raises one of the exceptions of
\* requests, or it returns the response of the last HTTP request.
Raises(exception) == [kind |-> exception]

\* A variant of _rpc_call without the last handler, except Exception.
rpc_call_NoCatchAll(outcome) ==
    LET empty == [raised |-> FALSE, value |-> EmptyDict]
        raise == [raised |-> TRUE, value |-> EmptyDict]
    IN  IF outcome.kind \in {"ConnectionError", "Timeout"} THEN empty
        ELSE IF outcome.kind # "response" THEN raise
        ELSE IF outcome.status >= 400 THEN raise
        ELSE IF ~outcome.body.json THEN raise
        ELSE LET data == outcome.body.data
             IN  IF data = NullJson THEN raise
                 ELSE IF "error" \in DOMAIN data /\ Truthy(data.error) THEN empty
                 ELSE [raised |-> FALSE, value |-> Get(data, "result", EmptyDict)]

\* _rpc_call from the return of session.post on: what it returns (value) and
\* whether an exception leaves it (raised).
rpc_call(outcome) ==
    LET empty == [raised |-> FALSE, value |-> EmptyDict]
    IN  \* except ConnectionError, except Timeout, except Exception
        IF outcome.kind # "response" THEN empty
        \* response.raise_for_status() raises HTTPError: except Exception
        ELSE IF outcome.status >= 400 THEN empty
        \* response.json() raises: except Exception
        ELSE IF ~outcome.body.json THEN empty
        ELSE LET data == outcome.body.data
             IN  \* "error" in None raises TypeError: except Exception
                 IF data = NullJson THEN empty
                 \* if "error" in data and data["error"]: return {}
                 ELSE IF "error" \in DOMAIN data /\ Truthy(data.error) THEN empty
                 \* return data.get("result", {})
                 ELSE [raised |-> FALSE, value |-> Get(data, "result", EmptyDict)]

\* A variant of the retry policy that also retries a response whose body
\* carries a JSON-RPC error.
ShouldRetry_OnRpcError(reply) ==
    \/ reply.kind \in {"connect_error", "read_timeout"}
    \/ /\ reply.kind = "response"
       /\ \/ reply.status \in STATUS_FORCELIST
          \/ /\ reply.body.json
             /\ reply.body.data # NullJson
             /\ "error" \in DOMAIN reply.body.data

\* The Retry policy mounted on the session: a failed connection and a read
\* timeout are retried (POST is in allowed_methods), and so is a response
\* whose status is in status_forcelist, whatever its body; any other
\* response is handed to the caller of session.post.
ShouldRetry(reply) ==
    \/ reply.kind \in {"connect_error", "read_timeout"}
    \/ reply.kind = "response" /\ reply.status \in STATUS_FORCELIST

\* A variant that gives up when no retry is left after this one.
is_exhausted_AtZero(total) == total <= 0

\* Retry.is_exhausted, evaluated after Retry.increment took one retry from
\* total: the policy gives up when the count has gone below zero.
is_exhausted(total) == total < 0

\* What session.post raises when the retries are exhausted: RetryError for
\* a status of the forcelist, ConnectionError for a failed connection and
\* for a read timeout.
GiveUp(reply) ==
    IF reply.kind = "response" THEN Raises("RetryError")
    ELSE Raises("ConnectionError")

NoReply == [kind |-> "none"]
NoReturn == [raised |-> FALSE, value |-> NullJson]

\* No _rpc_call was made yet.
RpcIdle == [pc |-> "idle", calls |-> 0, total |-> RETRY_TOTAL, attempts |-> 0,
            last |-> NoReply, only_status |-> TRUE, outcome |-> NoReply,
            ret |-> NoReturn]

\* _rpc_call is entered: session.post starts with a fresh Retry(total=3).
rpc_call_begin ==
    /\ rpc.pc \in {"idle", "done"}
    /\ rpc.calls < MaxRpcCalls
    /\ rpc' = [RpcIdle EXCEPT !.pc = "sending", !.calls = rpc.calls + 1]
    /\ UNCHANGED <<appVars, concVars, mgrVars, dbVars, health, wfs, cancel_requested>>

\* One HTTP request of session.post and what the adapter does with the
\* reply: it sleeps and sends again, or session.post ends and _rpc_call
\* returns.  attempts counts the HTTP requests of the call, last is the
\* reply to the latest, only_status tells that every reply so far was a
\* response with a status of the forcelist.
session_post_attempt(reply) ==
    /\ rpc.pc = "sending"
    /\ LET left == rpc.total - 1
           seen == [rpc EXCEPT !.attempts = @ + 1, !.last = reply,
                               !.only_status = @ /\ reply.kind = "response"
                                                 /\ reply.status \in STATUS_FORCELIST]
       IN  IF ShouldRetry(reply) /\ ~is_exhausted(left)
           THEN rpc' = [seen EXCEPT !.total = left]
           ELSE LET outcome == IF ShouldRetry(reply) THEN GiveUp(reply) ELSE reply
                IN  rpc' = [seen EXCEPT !.pc = "done",
                                        !.total = IF ShouldRetry(reply) THEN left ELSE @,
                                        !.outcome = outcome,
                                        !.ret = rpc_call(outcome)]
    /\ UNCHANGED <<appVars, concVars, mgrVars, dbVars, health, wfs, cancel_requested>>

(***************************************************************************)
(* backend/qie_node_manager.py: the health of the node.                    *)
(***************************************************************************)
Digits(n) == [digits |-> TRUE, value |-> n]
NotDigits == [digits |-> FALSE, value |-> 0]

\* A variant that takes a node without blocks for healthy.
IsHealthy_Inclusive(catching_up, height) == ~catching_up /\ height >= 0

\* healthy = not catching_up and height > 0
IsHealthy(catching_up, height) == ~catching_up /\ height > 0

\* The dict returned when the status call gave nothing.
HealthNotResponding ==
    [healthy |-> FALSE, message |-> <<"Node is not responding to RPC calls">>,
     height |-> 0, sync_info |-> EmptyDict, validator_info |-> EmptyDict]

\* The dict returned by the except clause of check_node_health.
HealthError ==
    [healthy |-> FALSE, message |-> <<"Error checking health">>,
     height |-> 0, sync_info |-> EmptyDict, validator_info |-> EmptyDict]

\* check_node_health, given what the session.post of its status call does.
check_node_health(outcome) ==
    LET r == rpc_call(outcome)
        status == r.value
    IN  IF r.raised THEN HealthError
        ELSE IF ~Truthy(status) THEN HealthNotResponding
        ELSE LET sync_info == Get(status, "sync_info", EmptyDict)
                 validator_info == Get(status, "validator_info", EmptyDict)
                 text == Get(sync_info, "latest_block_height", Digits(0))
                 catching_up == Get(sync_info, "catching_up", FALSE)
             IN  \* int("abc") raises ValueError: the except clause
                 IF ~text.digits THEN HealthError
                 ELSE LET height == text.value
                          healthy == IsHealthy(catching_up, height)
                      IN  [healthy |-> healthy,
                           message |->
                               IF catching_up
                               THEN <<"Node is syncing (height: ", height, ")">>
                               ELSE IF healthy THEN <<"Node is healthy">>
                               ELSE <<"Node is syncing or not responding">>,
                           height |-> height,
                           sync_info |-> sync_info,
                           validator_info |-> validator_info]

\* get_node_status, given what the session.post of its status call does.
get_node_status(outcome) ==
    LET r == rpc_call(outcome)
        status == r.value
    IN  IF r.raised
        THEN [online |-> FALSE, message |-> <<"Error">>, data |-> EmptyDict]
        ELSE IF ~Truthy(status)
        THEN [online |-> FALSE, message |-> <<"Node is not responding">>,
              data |-> EmptyDict]
        ELSE [online |-> TRUE, message |-> <<"Node status retrieved successfully">>,
              data |-> status]

NoHealth == [healthy |-> FALSE, message |-> <<>>, height |-> 0,
             sync_info |-> EmptyDict, validator_info |-> EmptyDict]

\* No direct call of check_node_health was made yet.
HealthIdle == [outcome |-> NoReply, result |-> NoHealth, prev |-> "none"]

\* manager.check_node_health() called directly; prev remembers whether the
\* call before this one answered healthy.
check_node_health_call(outcome) ==
    /\ health' = [outcome |-> outcome,
                  result |-> check_node_health(outcome),
                  prev |-> IF health.outcome = NoReply THEN "none"
                           ELSE IF health.result.healthy THEN "healthy"
                           ELSE "unhealthy"]
    /\ UNCHANGED <<appVars, concVars, mgrVars, dbVars, rpc, wfs, cancel_requested>>

\* GET /api/v1/qie/node/status: one status call for the health and a second
\* one for the node status; health_outcome and status_outcome are what the
\* session.post of each does (kept in raw of the response).
get_qie_node_status_body(client_id, health_outcome, status_outcome) ==
    LET request_id == generate_request_id(now)
        h == check_node_health(health_outcome)
        status == get_node_status(status_outcome)
        data == [node |-> [online |-> status.online,
                           healthy |-> h.healthy,
                           height |-> h.height,
                           syncing |-> ~h.healthy,
                           rpc_url |-> RPC_URL,
                           chain_id |-> CHAIN_ID],
                 response |-> status.data]
    IN  /\ resp' = [op |-> "node_status", client |-> client_id, status |-> 200,
                    raw |-> [health |-> health_outcome, status |-> status_outcome],
                    body |-> success_response(data, request_id, now)]
        /\ UNCHANGED <<transaction_history, alerts_log, webhook_posts, accepted>>

get_qie_node_status(client_id, health_outcome, status_outcome) ==
    /\ rate_limit(client_id, "node_status",
                  get_qie_node_status_body(client_id, health_outcome, status_outcome))
    /\ UNCHANGED <<now, WEBHOOK_URL, offApp>>

(***************************************************************************)
(* backend/qie_node_manager.py: wait_for_sync.                             *)
(***************************************************************************)
NoSync == [synced |-> FALSE, message |-> <<>>, attempts |-> 0, height |-> 0]

\* No wait_for_sync was called yet.  attempt is the loop variable; polls
\* counts the calls of check_node_health, slept the seconds spent in
\* time.sleep, and seen lists what each call of check_node_health answered
\* (healthy and height).
WfsIdle == [pc |-> "idle", max_attempts |-> 0, interval |-> 0, attempt |-> 0,
            polls |-> 0, slept |-> 0, last |-> NoHealth, seen |-> <<>>,
            ret |-> NoSync]

\* What seen keeps of a health dict.
Observed(h) == [healthy |-> h.healthy, height |-> h.height]

\* A variant that sleeps after every round, the last one included.
SleepsAfter_EveryRound(attempt, max_attempts) == attempt < max_attempts

\* if attempt < max_attempts - 1: time.sleep(interval)
SleepsAfter(attempt, max_attempts) == attempt < max_attempts - 1

\* wait_for_sync(max_attempts, interval) is called.
wait_for_sync_begin(max_attempts, interval) ==
    /\ wfs.pc = "idle"
    /\ wfs' = [WfsIdle EXCEPT !.pc = "loop", !.max_attempts = max_attempts,
                              !.interval = interval]
    /\ UNCHANGED <<appVars, concVars, mgrVars, dbVars, rpc, health, cancel_requested>>

\* for attempt in range(max_attempts): health = self.check_node_health();
\* return when healthy, else go to sleep unless this was the last round.
wfs_poll(outcome) ==
    /\ wfs.pc = "loop"
    /\ LET h == check_node_health(outcome)
       IN  wfs' = IF h.healthy
                  THEN [wfs EXCEPT !.pc = "done", !.polls = @ + 1, !.last = h,
                                   !.seen = Append(@, Observed(h)),
                                   !.ret = [synced |-> TRUE,
                                            message |-> <<"Node synced successfully">>,
                                            attempts |-> wfs.attempt + 1,
                                            height |-> h.height]]
                  ELSE [wfs EXCEPT !.pc = IF SleepsAfter(wfs.attempt, wfs.max_attempts)
                                          THEN "sleep" ELSE "final",
                                   !.polls = @ + 1, !.last = h,
                                   !.seen = Append(@, Observed(h))]
    /\ UNCHANGED <<appVars, concVars, mgrVars, dbVars, rpc, health, cancel_requested>>

\* time.sleep(interval), then the next round of the loop, or the end of the
\* loop when range(max_attempts) is used up.
wfs_sleep ==
    /\ wfs.pc = "sleep"
    /\ wfs' = [wfs EXCEPT !.pc = IF wfs.attempt + 1 < wfs.max_attempts
                                 THEN "loop" ELSE "final",
                          !.attempt = @ + 1,
                          !.slept = @ + wfs.interval]
    /\ UNCHANGED <<appVars, concVars, mgrVars, dbVars, rpc, health, cancel_requested>>

\* After the loop: health = self.check_node_health() once more, and the
\* return of synced False.
wfs_final_poll(outcome) ==
    /\ wfs.pc = "final"
    /\ LET h == check_node_health(outcome)
       IN  wfs' = [wfs EXCEPT !.pc = "done", !.polls = @ + 1, !.last = h,
                              !.seen = Append(@, Observed(h)),
                              !.ret = [synced |-> FALSE,
                                       message |-> <<"Node did not sync within timeout">>,
                                       attempts |-> wfs.max_attempts,
                                       height |-> h.height]]
    /\ UNCHANGED <<appVars, concVars, mgrVars, dbVars, rpc, health, cancel_requested>>

\* The caller of wait_for_sync decides, while the call is running, that it
\* should stop.  wait_for_sync takes max_attempts and interval and nothing
\* else: it has no argument and reads no attribute through which the
\* decision could reach it.
request_cancel ==
    /\ wfs.pc \in {"loop", "sleep", "final"}
    /\ ~cancel_requested
    /\ cancel_requested' = TRUE
    /\ UNCHANGED <<appVars, concVars, mgrVars, dbVars, rpc, health, wfs>>

(***************************************************************************)
(* backend/qie_node_manager.py: the node process.                          *)
(***************************************************************************)
\* self.node_process is None
NoProcess == 0

\* No call of start_qie_node or stop_qie_node was made yet; n counts the
\* calls.
NoCall == [op |-> "none", success |-> FALSE, message |-> "", pid |-> NoProcess,
           n |-> 0]

\* A variant without the guard of start_qie_node.
StartRefused_Never(running) == FALSE

\* if self.is_running: return success False, "Node is already running"
StartRefused(running) == running

\* start_qie_node; outcome is what the operating system does: the process
\* is spawned, mkdir or Popen raises ("error"), or Popen raises
\* FileNotFoundError ("binary_missing").
start_qie_node(outcome) ==
    /\ mgr_ret.n < MaxMgrCalls
    /\ IF StartRefused(is_running)
       THEN /\ mgr_ret' = [op |-> "start", success |-> FALSE,
                           message |-> "Node is already running",
                           pid |-> node_process, n |-> mgr_ret.n + 1]
            /\ UNCHANGED <<is_running, node_process, processes>>
       ELSE IF outcome = "spawned"
       THEN LET pid == processes.spawned + 1
            IN  /\ node_process' = pid
                /\ is_running' = TRUE
                /\ processes' = [alive |-> processes.alive \cup {pid},
                                 spawned |-> pid]
                /\ mgr_ret' = [op |-> "start", success |-> TRUE,
                               message |-> "Node started successfully",
                               pid |-> pid, n |-> mgr_ret.n + 1]
       ELSE IF outcome = "binary_missing"
       THEN \* except FileNotFoundError
            /\ mgr_ret' = [op |-> "start", success |-> FALSE,
                           message |-> "qied binary not found",
                           pid |-> NoProcess, n |-> mgr_ret.n + 1]
            /\ UNCHANGED <<is_running, node_process, processes>>
       ELSE \* except Exception
            /\ is_running' = FALSE
            /\ mgr_ret' = [op |-> "start", success |-> FALSE,
                           message |-> "Failed to start node",
                           pid |-> NoProcess, n |-> mgr_ret.n + 1]
            /\ UNCHANGED <<node_process, processes>>
    /\ UNCHANGED <<appVars, concVars, nodeVars, dbVars, query>>

\* stop_qie_node; outcome is what happens to the process: it ends within
\* the timeout ("exited"), it is killed after the timeout ("killed"), or
\* signalling or waiting raises ("error").
stop_qie_node(outcome) ==
    /\ mgr_ret.n < MaxMgrCalls
    /\ IF ~is_running \/ node_process = NoProcess
       THEN /\ mgr_ret' = [op |-> "stop", success |-> FALSE,
                           message |-> "No running node process",
                           pid |-> NoProcess, n |-> mgr_ret.n + 1]
            /\ UNCHANGED <<is_running, node_process, processes>>
       ELSE IF outcome \in {"exited", "killed"}
       THEN /\ processes' = [processes EXCEPT !.alive = @ \ {node_process}]
            /\ is_running' = FALSE
            /\ mgr_ret' = [op |-> "stop", success |-> TRUE,
                           message |-> "Node stopped successfully",
                           pid |-> NoProcess, n |-> mgr_ret.n + 1]
            /\ UNCHANGED node_process
       ELSE \* except Exception
            /\ mgr_ret' = [op |-> "stop", success |-> FALSE,
                           message |-> "Error stopping node",
                           pid |-> NoProcess, n |-> mgr_ret.n + 1]
            /\ UNCHANGED <<is_running, node_process, processes>>
    /\ UNCHANGED <<appVars, concVars, nodeVars, dbVars, query>>

\* The node process ends on its own; the manager is not told.
process_exits ==
    /\ \E pid \in processes.alive :
           processes' = [processes EXCEPT !.alive = @ \ {pid}]
    /\ UNCHANGED <<appVars, concVars, nodeVars, dbVars, is_running, node_process,
                   mgr_ret, query>>

(***************************************************************************)
(* backend/qie_node_manager.py: the node queries.  Each is given what the  *)
(* session.post of its RPC call does.                                      *)
(***************************************************************************)
\* get_validator_info
get_validator_info(outcome) ==
    LET r == rpc_call(outcome)
    IN  IF r.raised
        THEN [found |-> FALSE, message |-> <<"Error">>, data |-> EmptyDict]
        ELSE IF ~Truthy(r.value)
        THEN [found |-> FALSE, message |-> <<"Validator not found">>,
              data |-> EmptyDict]
        ELSE [found |-> TRUE, message |-> <<"Validator found">>, data |-> r.value]

\* query_balance
query_balance(outcome) ==
    LET r == rpc_call(outcome)
    IN  IF r.raised
        THEN [success |-> FALSE, balance |-> "0", denom |-> "aqie",
              message |-> <<"Error">>]
        ELSE IF ~Truthy(r.value)
        THEN [success |-> FALSE, balance |-> "0", denom |-> "aqie",
              message |-> <<"Address not found or no balance">>]
        ELSE [success |-> TRUE,
              balance |-> Get(Get(r.value, "response", EmptyDict), "value", ""),
              denom |-> "aqie",
              message |-> <<"Balance retrieved successfully">>]

\* broadcast_transaction
broadcast_transaction(outcome) ==
    LET r == rpc_call(outcome)
    IN  IF r.raised
        THEN [success |-> FALSE, hash |-> "", code |-> -1, message |-> <<"Error">>]
        ELSE IF ~Truthy(r.value)
        THEN [success |-> FALSE, hash |-> "", code |-> -1,
              message |-> <<"Broadcast failed; no response from RPC">>]
        ELSE LET code == Get(r.value, "code", 0)
                 log_msg == Get(r.value, "log", "")
             IN  [success |-> code = 0,
                  hash |-> Get(r.value, "hash", ""),
                  code |-> code,
                  message |-> IF log_msg # "" THEN <<log_msg>>
                              ELSE IF code = 0 THEN <<"Transaction accepted">>
                              ELSE <<"Transaction rejected">>]

\* get_latest_block: the dict returned when the block call gave nothing has
\* the keys found, message and data; the two other returns have height too.
get_latest_block(outcome) ==
    LET r == rpc_call(outcome)
        block == r.value
        failed == [found |-> FALSE, message |-> <<"Error">>, data |-> EmptyDict,
                   height |-> 0]
    IN  IF r.raised THEN failed
        ELSE IF ~Truthy(block)
        THEN [found |-> FALSE, message |-> <<"Failed to retrieve latest block">>,
              data |-> EmptyDict]
        ELSE LET block_data == Get(block, "block", EmptyDict)
                 header == Get(block_data, "header", EmptyDict)
                 block_height == Get(header, "height", Digits(0))
             IN  \* int("abc") raises ValueError: the except clause
                 IF ~block_height.digits THEN failed
                 ELSE [found |-> TRUE,
                       message |-> <<"Latest block retrieved successfully">>,
                       data |-> block,
                       height |-> block_height.value]

QueryOps == {"check_node_health", "get_node_status", "get_validator_info",
             "query_balance", "broadcast_transaction", "get_latest_block"}

\* What the query op returns.
QueryResult(op, outcome) ==
    CASE op = "check_node_health" -> check_node_health(outcome)
      [] op = "get_node_status" -> get_node_status(outcome)
      [] op = "get_validator_info" -> get_validator_info(outcome)
      [] op = "query_balance" -> query_balance(outcome)
      [] op = "broadcast_transaction" -> broadcast_transaction(outcome)
      [] op = "get_latest_block" -> get_latest_block(outcome)

\* No query was made yet.
NoQuery == [op |-> "none", outcome |-> NoReply, result |-> EmptyDict]

\* One of the queries is called.
node_query(op, outcome) ==
    /\ query' = [op |-> op, outcome |-> outcome, result |-> QueryResult(op, outcome)]
    /\ UNCHANGED <<appVars, concVars, nodeVars, dbVars, is_running, node_process,
                   processes, mgr_ret>>

(***************************************************************************)
(* backend/database: the tables of models.py and the session scope of      *)
(* db.py.  A row is a record; the id of a new row is one more than the     *)
(* largest id of its table.  Of the columns those are kept that a          *)
(* constraint or a claim reads.                                            *)
(***************************************************************************)
Tables == {"bridges", "validators", "transactions", "anomalies", "alerts"}

EmptyDb == [t \in Tables |-> {}]

\* resolved_at is NULL.
NoTime == -1

Ids(rows) == {r.id : r \in rows}

\* The id of a new row: one more than the largest id of the table, as
\* SQLite gives it.
NextId(rows) ==
    IF rows = {} THEN 1
    ELSE 1 + CHOOSE i \in Ids(rows) : \A j \in Ids(rows) : j <= i

\* The engine enforces the foreign keys of the tables.  get_engine creates
\* the SQLite engine without PRAGMA foreign_keys=ON, and SQLite does not
\* check foreign keys unless it is told to; PostgreSQL always does.
EnforcesForeignKeys(e) == e = "postgresql"

\* A variant without the unique index.
UniqueOk_Unchecked(rows, row, column) == TRUE

\* unique=True: the column of the new row has a value no stored row has.
UniqueOk(rows, row, column) == \A r \in rows : r[column] # row[column]

\* ForeignKey(parent.id): checked by the engines that enforce it.
ForeignKeyOk(e, parents, id) == EnforcesForeignKeys(e) => id \in Ids(parents)

\* The INSERT of a row passes the constraints of its table.
InsertOk(e, d, table, row) ==
    CASE table = "bridges" -> UniqueOk(d.bridges, row, "address")
      [] table = "validators" -> UniqueOk(d.validators, row, "address")
      [] table = "transactions" ->
             /\ UniqueOk(d.transactions, row, "tx_hash")
             /\ ForeignKeyOk(e, d.bridges, row.bridge_id)
      [] table = "anomalies" -> ForeignKeyOk(e, d.transactions, row.transaction_id)
      [] table = "alerts" -> ForeignKeyOk(e, d.transactions, row.transaction_id)

\* The INSERT of a row that passes the constraints.
Insert(d, table, row) ==
    [d EXCEPT ![table] = @ \cup {[row EXCEPT !.id = NextId(d[table])]}]

\* session.delete(bridge): relationship(cascade="all, delete-orphan") on
\* Bridge.transactions, Transaction.anomalies and Transaction.alerts makes
\* the session delete the transactions of the bridge and the anomalies and
\* alerts of those transactions with it.
DeleteBridge(d, id) ==
    LET gone == {t.id : t \in {t \in d.transactions : t.bridge_id = id}}
    IN  [d EXCEPT !.bridges = {b \in @ : b.id # id},
                  !.transactions = {t \in @ : t.bridge_id # id},
                  !.anomalies = {a \in @ : a.transaction_id \notin gone},
                  !.alerts = {a \in @ : a.transaction_id \notin gone}]

\* The pending work of a session: objects added and bridges deleted.
Add(table, row) == [op |-> "add", table |-> table, row |-> row]
Delete(id) == [op |-> "delete", id |-> id]

\* The bridges the pending work deletes.
Deleted(pending) ==
    {pending[k].id : k \in {k \in DOMAIN pending : pending[k].op = "delete"}}

\* The statements of pending are sent to the database in order; the first
\* that breaks a constraint raises IntegrityError, and the transaction is
\* lost as a whole.
RECURSIVE Execute(_, _, _)
Execute(e, d, pending) ==
    IF pending = <<>> THEN [ok |-> TRUE, db |-> d]
    ELSE LET o == Head(pending)
         IN  IF o.op = "delete"
             THEN Execute(e, DeleteBridge(d, o.id), Tail(pending))
             ELSE IF InsertOk(e, d, o.table, o.row)
             THEN Execute(e, Insert(d, o.table, o.row), Tail(pending))
             ELSE [ok |-> FALSE, db |-> d]

\* The objects of pending that are added to one of tables.
AddsTo(pending, tables) ==
    SelectSeq(pending, LAMBDA o : o.op = "add" /\ o.table \in tables)

\* The ids of the bridges and transactions gone before, and those of d that
\* are not in after.
Gone(before, d, after) ==
    [bridges |-> before.bridges \cup (Ids(d.bridges) \ Ids(after.bridges)),
     transactions |->
         before.transactions \cup (Ids(d.transactions) \ Ids(after.transactions))]

\* session.flush(): the unit of work inserts parents before their children
\* (the tables in the order of their foreign keys, the rows of a table in
\* the order they were added) and deletes after it inserted.
Flush(e, d, pending) ==
    Execute(e, d,
            AddsTo(pending, {"bridges", "validators"})
            \o AddsTo(pending, {"transactions"})
            \o AddsTo(pending, {"anomalies", "alerts"})
            \o SelectSeq(pending, LAMBDA o : o.op = "delete"))

\* A variant of the except clause that does not roll back.
OnException_NoRollback(events) == events

\* except Exception: session.rollback()
OnException(events) == Append(events, "rollback")

\* No session scope was entered yet.  events lists the calls get_session
\* makes on its session, start is the database as the scope found it, exc
\* the exception raised inside the scope and raised the one that left it;
\* units counts the scopes, steps the statements the bodies of all scopes
\* ran, flushes the flushes of the scope, and gone holds the ids of the
\* bridges and transactions that committed work removed.
NoSession == [pc |-> "none", kind |-> "", stage |-> 0, pending |-> <<>>,
              events |-> <<>>, start |-> EmptyDb, exc |-> "", raised |-> "",
              units |-> 0, steps |-> 0, flushes |-> 0,
              gone |-> [bridges |-> {}, transactions |-> {}]]

\* init_db_manager: the engine of the database URL is created.
init_db_manager(e) ==
    /\ engine = "none"
    /\ engine' = e
    /\ UNCHANGED <<appVars, concVars, nodeVars, mgrVars, db, sess>>

\* with get_session() as session: the scope is entered, by seed_database
\* (kind "seed") or by any other caller (kind "work").
get_session_enter(kind) ==
    /\ engine # "none"
    /\ sess.pc \in {"none", "closed"}
    /\ sess.units < MaxUnits
    /\ sess' = [NoSession EXCEPT !.pc = "body", !.kind = kind,
                                 !.events = <<"open">>, !.start = db,
                                 !.units = sess.units + 1,
                                 !.steps = sess.steps,
                                 !.gone = sess.gone]
    /\ UNCHANGED <<appVars, concVars, nodeVars, mgrVars, engine, db>>

\* The body may take another step.
InBody(kind) ==
    /\ sess.pc = "body" /\ sess.kind = kind
    /\ sess.steps < MaxSteps

\* session.add(...) of a new object, by a body that deleted nothing since
\* its last commit.
session_add(table, row) ==
    /\ InBody("work")
    /\ Deleted(sess.pending) = {}
    /\ sess' = [sess EXCEPT !.pending = Append(@, Add(table, row)),
                            !.steps = @ + 1]
    /\ UNCHANGED <<appVars, concVars, nodeVars, mgrVars, engine, db>>

\* session.delete(bridge) of a stored bridge, by a body that added nothing
\* since its last commit.
session_delete(id) ==
    /\ InBody("work")
    /\ id \in Ids(db.bridges)
    /\ \A k \in DOMAIN sess.pending : sess.pending[k].op = "delete"
    /\ sess' = [sess EXCEPT !.pending = Append(@, Delete(id)), !.steps = @ + 1]
    /\ UNCHANGED <<appVars, concVars, nodeVars, mgrVars, engine, db>>

\* session.commit() inside the body: the pending work is flushed and
\* committed and the body goes on (at stage, for the seeding), or the flush
\* raises IntegrityError and the exception leaves the body; steps is the
\* count of the statements run.
Commit(pending, stage, steps) ==
    LET f == Flush(engine, db, pending)
    IN  IF f.ok
        THEN /\ db' = f.db
             /\ sess' = [sess EXCEPT !.pending = <<>>, !.stage = stage,
                                     !.steps = steps, !.flushes = @ + 1,
                                     !.gone = Gone(@, db, f.db)]
        ELSE /\ db' = db
             /\ sess' = [sess EXCEPT !.pc = "except", !.exc = "IntegrityError",
                                     !.pending = pending,
                                     !.steps = steps, !.flushes = @ + 1]

\* session.commit() called by the body itself.
session_commit ==
    /\ InBody("work")
    /\ Commit(sess.pending, sess.stage, sess.steps + 1)
    /\ UNCHANGED <<appVars, concVars, nodeVars, mgrVars, engine>>

\* A statement of the body raises.
body_raises(e) ==
    /\ sess.pc = "body"
    /\ sess' = [sess EXCEPT !.pc = "except", !.exc = e]
    /\ UNCHANGED <<appVars, concVars, nodeVars, mgrVars, engine, db>>

\* The body of a caller other than seed_database ends.
body_returns ==
    /\ sess.pc = "body" /\ sess.kind = "work"
    /\ sess' = [sess EXCEPT !.pc = "commit"]
    /\ UNCHANGED <<appVars, concVars, nodeVars, mgrVars, engine, db>>

\* yield session returned: session.commit() of get_session.  The commit
\* succeeds, the flush raises IntegrityError, or the commit raises for a
\* reason of the database (outcome "error").
get_session_commit(outcome) ==
    /\ sess.pc = "commit"
    /\ IF outcome = "error"
       THEN /\ db' = db
            /\ sess' = [sess EXCEPT !.pc = "except", !.exc = "OperationalError",
                                    !.events = Append(@, "commit")]
       ELSE LET f == Flush(engine, db, sess.pending)
            IN  /\ db' = IF f.ok THEN f.db ELSE db
                /\ sess' = [sess EXCEPT
                       !.pc = IF f.ok THEN "finally" ELSE "except",
                       !.exc = IF f.ok THEN @ ELSE "IntegrityError",
                       !.pending = IF f.ok THEN <<>> ELSE @,
                       !.events = Append(@, "commit"),
                       !.flushes = @ + 1,
                       !.gone = IF f.ok THEN Gone(@, db, f.db) ELSE @]
    /\ UNCHANGED <<appVars, concVars, nodeVars, mgrVars, engine>>

\* except Exception as e: session.rollback(); raise
get_session_except ==
    /\ sess.pc = "except"
    /\ sess' = [sess EXCEPT !.pc = "finally", !.pending = <<>>,
                            !.events = OnException(@), !.raised = sess.exc]
    /\ UNCHANGED <<appVars, concVars, nodeVars, mgrVars, engine, db>>

\* finally: session.close()
get_session_finally ==
    /\ sess.pc = "finally"
    /\ sess' = [sess EXCEPT !.pc = "closed", !.events = Append(@, "close")]
    /\ UNCHANGED <<appVars, concVars, nodeVars, mgrVars, engine, db>>

(***************************************************************************)
(* backend/database/db.py: SeedData, run by seed_database inside one       *)
(* session scope.  Every seeding function adds its rows and then calls     *)
(* session.commit() itself.  An address or hash f"0x{'a' * n}{i}" is the    *)
(* pair <<"0xa", i>>.                                                       *)
(***************************************************************************)
\* The indexes 0 .. count-1 of a seeding loop, in order.
Range(count) == [k \in 1..count |-> k - 1]

BridgeRow(address) == [id |-> 0, address |-> address]
ValidatorRow(address) == [id |-> 0, address |-> address]
TransactionRow(tx_hash, bridge_id, value, is_flagged) ==
    [id |-> 0, tx_hash |-> tx_hash, bridge_id |-> bridge_id, value |-> value,
     is_flagged |-> is_flagged]
AnomalyRow(transaction_id) == [id |-> 0, transaction_id |-> transaction_id]
AlertRow(transaction_id, is_resolved, resolved_at) ==
    [id |-> 0, transaction_id |-> transaction_id, is_resolved |-> is_resolved,
     resolved_at |-> resolved_at]

\* The stored row the seeding created with this address or hash (the object
\* the seeding function holds, with the id the commit gave it).
SeededBridge(i) == CHOOSE b \in db.bridges : b.address = <<"0xa", i>>
SeededTransaction(i) == CHOOSE t \in db.transactions : t.tx_hash = <<"0xb", i>>

\* The seeding function of stage k adds the rows and commits.
SeedStep(k, rows) ==
    /\ sess.pc = "body" /\ sess.kind = "seed" /\ sess.stage = k
    /\ Commit(sess.pending \o rows, k + 1, sess.steps)
    /\ UNCHANGED <<appVars, concVars, nodeVars, mgrVars, engine>>

\* Bridge(address=f"0x{'a' * ...}{i}", ...) for i in range(count)
seed_bridges ==
    SeedStep(0, [k \in 1..SeedCount |->
                    Add("bridges", BridgeRow(<<"0xa", Range(SeedCount)[k]>>))])

\* Validator(address=f"qie1validator{i}...", ...) for i in range(count)
seed_validators ==
    SeedStep(1, [k \in 1..SeedCount |->
                    Add("validators",
                        ValidatorRow(<<"qie1validator", Range(SeedCount)[k]>>))])

\* Transaction(tx_hash=f"0x{'b' * ...}{i}", bridge_id=bridges[i % len].id,
\* value=100.5 + i, is_flagged=i % 5 == 0) for i in range(count)
seed_transactions ==
    SeedStep(2, [k \in 1..SeedCount |->
                    LET i == Range(SeedCount)[k]
                    IN  Add("transactions",
                            TransactionRow(<<"0xb", i>>,
                                           SeededBridge(i % SeedCount).id,
                                           100 + i, i % 5 = 0))])

\* AnomalyDetection(transaction_id=tx.id, ...) for the transactions that are
\* flagged or score above 50 (the same ones: i % 5 == 0)
seed_anomalies ==
    SeedStep(3, LET flagged == SelectSeq(Range(SeedCount),
                                         LAMBDA i : SeededTransaction(i).is_flagged)
                IN  [k \in 1..Len(flagged) |->
                       Add("anomalies",
                           AnomalyRow(SeededTransaction(flagged[k]).id))])

\* Alert(transaction_id=tx.id, ..., is_resolved=i % 5 == 0) for i % 3 == 0;
\* resolved_at is not given and has no default.
seed_alerts ==
    SeedStep(4, LET third == SelectSeq(Range(SeedCount), LAMBDA i : i % 3 = 0)
                IN  [k \in 1..Len(third) |->
                       Add("alerts",
                           AlertRow(SeededTransaction(third[k]).id,
                                    third[k] % 5 = 0, NoTime))])

\* seed_all returns the counts, and the body of seed_database ends.
seed_all_returns ==
    /\ sess.pc = "body" /\ sess.kind = "seed" /\ sess.stage = 5
    /\ sess' = [sess EXCEPT !.pc = "commit"]
    /\ UNCHANGED <<appVars, concVars, nodeVars, mgrVars, engine, db>>

(***************************************************************************)
(* Inputs of the node manager.                                             *)
(***************************************************************************)
\* The result field of the answer to a status call.
SyncInfo(height, catching_up) ==
    [sync_info |-> [latest_block_height |-> height, catching_up |-> catching_up],
     validator_info |-> [address |-> "val"]]

StatusResults ==
    {SyncInfo(Digits(5), FALSE), SyncInfo(Digits(3), TRUE),
     SyncInfo(Digits(0), FALSE), SyncInfo(Digits(0), TRUE),
     SyncInfo(NotDigits, FALSE),
     [sync_info |-> [catching_up |-> FALSE]],
     [sync_info |-> [latest_block_height |-> Digits(7)]],
     [node_info |-> [network |-> "qie"]],
     EmptyDict, NullJson}

RpcError == [code |-> -32601, message |-> "Method not found"]

\* The bodies a response may carry.
Bodies ==
    {NotJson, Json(NullJson), Json(EmptyDict),
     Json([error |-> RpcError]),
     Json([error |-> RpcError, result |-> SyncInfo(Digits(5), FALSE)]),
     Json([error |-> NullJson, result |-> SyncInfo(Digits(5), FALSE)])}
    \cup {Json([result |-> r]) : r \in StatusResults}

\* What the node may do with one HTTP request.
NodeReplies ==
    {ConnectError, ReadTimeout}
    \cup {Response(st, b) : st \in {429, 503},
                            b \in {NotJson, Json([error |-> RpcError])}}
    \cup {Response(200, b) : b \in Bodies}
    \cup {Response(404, b) : b \in {NotJson, Json([error |-> RpcError]),
                                     Json([result |-> SyncInfo(Digits(5), FALSE)])}}

\* What session.post may do in the end.
SessionOutcomes ==
    {Raises("ConnectionError"), Raises("Timeout"), Raises("RetryError")}
    \cup {r \in NodeReplies : r.kind = "response" /\ r.status \notin STATUS_FORCELIST}

\* The outcomes of the two status calls of one node-status request: the
\* same for both, or one of them failing while the other succeeds.
OutcomePairs ==
    {<<o, o>> : o \in SessionOutcomes}
    \cup {<<Raises("ConnectionError"),
            Response(200, Json([result |-> SyncInfo(Digits(5), FALSE)]))>>,
          <<Response(200, Json([result |-> SyncInfo(Digits(5), FALSE)])),
            Raises("ConnectionError")>>,
          <<Response(200, Json([result |-> SyncInfo(Digits(3), TRUE)])),
            Response(200, Json([result |-> SyncInfo(Digits(5), FALSE)]))>>}

\* The result field of the answers to block, abci_query and
\* broadcast_tx_sync calls.
QueryResults ==
    {[block |-> [header |-> [height |-> Digits(12)]]],
     [block |-> [header |-> [height |-> NotDigits]]],
     [block |-> [header |-> EmptyDict]],
     [response |-> [value |-> "1000"]],
     [code |-> 0, hash |-> "ABCD", log |-> ""],
     [code |-> 5, hash |-> "ABCD", log |-> "insufficient funds"]}

\* What the session.post of a query may do in the end.
QueryOutcomes ==
    SessionOutcomes \cup {Response(200, Json([result |-> r])) : r \in QueryResults}

\* The objects a body adds to its session.
NewRows ==
    {<<"bridges", BridgeRow(<<"0xa", 0>>)>>,
     <<"transactions", TransactionRow(<<"0xb", 0>>, 1, 100, FALSE)>>,
     <<"transactions", TransactionRow(<<"0xb", 0>>, 1, 200, FALSE)>>,
     <<"anomalies", AnomalyRow(1)>>}

\* The arguments of wait_for_sync.
AttemptLimits == 1..MaxAttempts
Intervals == {5}

(***************************************************************************)
(* Specifications.                                                         *)
(***************************************************************************)
Init ==
    /\ now = 0
    /\ request_counts = [c \in Clients |-> <<>>]
    /\ transaction_history = <<>>
    /\ alerts_log = <<>>
    /\ WEBHOOK_URL \in {"", "http://hook"}
    /\ webhook_posts = <<>>
    /\ resp = [op |-> "none", client |-> "", status |-> 0, raw |-> -1, body |-> <<>>]
    /\ decisions = <<>>
    /\ accepted = 0
    /\ thr = [t \in Threads |-> Idle]
    /\ rpc = RpcIdle
    /\ health = HealthIdle
    /\ wfs = WfsIdle
    /\ cancel_requested = FALSE
    /\ is_running = FALSE
    /\ node_process = NoProcess
    /\ processes = [alive |-> {}, spawned |-> 0]
    /\ mgr_ret = NoCall
    /\ query = NoQuery
    /\ engine = "none"
    /\ db = EmptyDb
    /\ sess = NoSession

\* The pipeline: the requests of one client, served one after the other.
Next ==
    \/ \E c \in OneClient, in \in ValidationInputs :
         Len(decisions) < MaxRequests /\ validate_cross_chain(c, in[1], in[2])
    \/ \E c \in OneClient, in \in AnomalyInputs :
         Len(decisions) < MaxRequests /\ get_anomaly_score(c, in[1], in[2])
    \/ \E c \in OneClient, l \in LimitArgs, o \in OffsetArgs :
         Len(decisions) < MaxRequests /\ get_transaction_history(c, l, o)
    \/ \E c \in OneClient, j \in AlertBodies, outcome \in PostOutcomes :
         Len(decisions) < MaxRequests /\ send_anomaly_alert(c, j, outcome)

Spec == Init /\ [][Next]_vars

\* The limiter: two clients, the clock advancing between requests, one input
\* for each endpoint; the second client calls one of the endpoints.
NextLim ==
    \/ \E d \in TimeSteps : Tick(d)
    \/ \E c \in Clients :
         /\ Len(decisions) < MaxLimRequests
         /\ validate_cross_chain(c, GoodValidation("0x1"), 90000)
    \/ \E c \in OneClient :
         /\ Len(decisions) < MaxLimRequests
         /\ get_anomaly_score(c, [transaction_hash |-> "0x1"], 85000)
    \/ \E c \in OneClient :
         /\ Len(decisions) < MaxLimRequests
         /\ get_transaction_history(c, ArgAbsent, ArgAbsent)
    \/ \E c \in OneClient :
         /\ Len(decisions) < MaxLimRequests
         /\ send_anomaly_alert(c, GoodAlert("0x1", "high"), "returned")

SpecLim == Init /\ [][NextLim]_vars

\* The limiter under the threaded server: admission checks of two threads
\* interleave.
NextConc ==
    \/ \E d \in TimeSteps : Tick(d)
    \/ \E t \in Threads, c \in Clients : Enter(t, c)
    \/ \E t \in Threads : Filter(t)
    \/ \E t \in Threads : Store(t)
    \/ \E t \in Threads : TestLimit(t)
    \/ \E t \in Threads : Record(t)

SpecConc == Init /\ [][NextConc]_vars

\* The RPC client: calls of _rpc_call against a node that answers every
\* HTTP request as it likes.
NextRpc ==
    \/ rpc_call_begin
    \/ \E reply \in NodeReplies : session_post_attempt(reply)

SpecRpc == Init /\ [][NextRpc]_vars

\* The health of the node: direct health checks and node-status requests.
NextNode ==
    \/ \E o \in SessionOutcomes : check_node_health_call(o)
    \/ \E c \in OneClient, pair \in OutcomePairs :
         /\ Len(decisions) < MaxNodeRequests
         /\ get_qie_node_status(c, pair[1], pair[2])

SpecNode == Init /\ [][NextNode]_vars

\* wait_for_sync against a node that answers every poll as it likes, with a
\* caller that may want to cancel.
NextSync ==
    \/ \E m \in AttemptLimits, i \in Intervals : wait_for_sync_begin(m, i)
    \/ \E o \in SessionOutcomes : wfs_poll(o)
    \/ wfs_sleep
    \/ \E o \in SessionOutcomes : wfs_final_poll(o)
    \/ request_cancel

SpecSync == Init /\ [][NextSync]_vars

\* The node process: starts and stops in any order, and a process that may
\* end on its own.
NextProc ==
    \/ \E o \in {"spawned", "binary_missing", "error"} : start_qie_node(o)
    \/ \E o \in {"exited", "killed", "error"} : stop_qie_node(o)
    \/ process_exits

SpecProc == Init /\ [][NextProc]_vars

\* The node queries, each against a node that answers as it likes.
NextQuery ==
    \/ \E op \in QueryOps, o \in QueryOutcomes : node_query(op, o)

SpecQuery == Init /\ [][NextQuery]_vars

\* The database: session scopes entered one after the other, by
\* seed_database and by callers that add, delete and commit as they like.
NextDb ==
    \/ \E e \in {"sqlite", "postgresql"} : init_db_manager(e)
    \/ \E kind \in {"seed", "work"} : get_session_enter(kind)
    \/ \E new \in NewRows : session_add(new[1], new[2])
    \/ \E id \in Ids(db.bridges) : session_delete(id)
    \/ session_commit
    \/ \E e \in {"RuntimeError"} : body_raises(e)
    \/ body_returns
    \/ seed_bridges
    \/ seed_validators
    \/ seed_transactions
    \/ seed_anomalies
    \/ seed_alerts
    \/ seed_all_returns
    \/ \E outcome \in {"ok", "error"} : get_session_commit(outcome)
    \/ get_session_except
    \/ get_session_finally

SpecDb == Init /\ [][NextDb]_vars

(***************************************************************************)
(* Properties.                                                             *)
(***************************************************************************)
\* The step serves one request (admitted or not).
Served == Len(decisions') = Len(decisions) + 1

\* The decision taken by the step that served a request.
LastDecision == decisions[Len(decisions)]

\* The earlier admitted requests of decision i's client that lie in the
\* 60-second window ending at decision i.
AdmittedBefore(i) ==
    {j \in 1..(i - 1) : /\ decisions[j].client = decisions[i].client
                        /\ decisions[j].admit
                        /\ decisions[j].time > decisions[i].time - WINDOW}

\* C1: a request is admitted exactly when fewer than RATE_LIMIT requests of
\* the same client were admitted in the 60 seconds before it: the limiter
\* admits RATE_LIMIT requests per window, rejects the next, and admits the
\* client again once the earlier requests are 60 seconds old; the requests of
\* other clients play no part.
C1_SlidingWindowPerClient ==
    \A i \in 1..Len(decisions) :
        decisions[i].admit <=> Cardinality(AdmittedBefore(i)) < RATE_LIMIT

\* C1 witness: a client admitted RATE_LIMIT times at time 0, rejected at
\* time 0, and admitted again 61 seconds later.
C1_Witness ==
    \E i, k \in 1..Len(decisions) :
        /\ i < k
        /\ decisions[i].client = decisions[k].client
        /\ ~decisions[i].admit /\ decisions[i].time = 0
        /\ Cardinality(AdmittedBefore(i)) = RATE_LIMIT
        /\ decisions[k].admit /\ decisions[k].time = 61

\* Occurrences of x in the sequence s.
Count(s, x) == Cardinality({i \in 1..Len(s) : s[i] = x})

\* C3: a request the limiter rejects is answered 429 RATE_LIMIT and leaves
\* no trace: no client's window gains a timestamp, and the validation
\* history, the alert log and the webhook calls are as before.
C3_RejectedNoSideEffects ==
    [][(Served /\ ~decisions'[Len(decisions')].admit) =>
          /\ resp'.status = 429 /\ resp'.body.code = "RATE_LIMIT"
          /\ \A c \in Clients : \A i \in 1..Len(request_counts'[c]) :
                Count(request_counts'[c], request_counts'[c][i])
                    <= Count(request_counts[c], request_counts'[c][i])
          /\ transaction_history' = transaction_history
          /\ alerts_log' = alerts_log
          /\ webhook_posts' = webhook_posts
          /\ accepted' = accepted]_vars

\* C3 witness: a request was just rejected while the history, the alert log
\* and the client's window were not empty.
C3_Witness ==
    /\ resp.status = 429
    /\ Len(decisions) > 0 /\ ~LastDecision.admit
    /\ Len(request_counts[LastDecision.client]) = RATE_LIMIT
    /\ Len(transaction_history) > 0
    /\ Len(alerts_log) > 0

\* Windows of admitted requests of one client, for C2.
AdmittedInWindowEndingAt(i) ==
    {j \in 1..Len(decisions) : /\ decisions[j].client = decisions[i].client
                               /\ decisions[j].admit
                               /\ decisions[j].time > decisions[i].time - WINDOW
                               /\ decisions[j].time <= decisions[i].time}

\* C2 (as claimed): under every interleaving of admission checks no client
\* has more than RATE_LIMIT requests admitted within one 60-second window,
\* and every admitted request that is less than 60 seconds old is still in
\* its client's window.
C2_SafeUnderConcurrency ==
    /\ \A i \in 1..Len(decisions) :
          decisions[i].admit =>
              Cardinality(AdmittedInWindowEndingAt(i)) <= RATE_LIMIT
    /\ \A i \in 1..Len(decisions) :
          (decisions[i].admit /\ decisions[i].time > now - WINDOW) =>
              Count(request_counts[decisions[i].client], decisions[i].time)
                  >= Cardinality({j \in 1..Len(decisions) :
                                     /\ decisions[j].client = decisions[i].client
                                     /\ decisions[j].admit
                                     /\ decisions[j].time = decisions[i].time})

\* The step served a request that the limiter admitted and that the
\* endpoint op answered 200.
Answered(op) ==
    /\ Served
    /\ decisions'[Len(decisions')].admit
    /\ resp'.op = op
    /\ resp'.status = 200

\* C4: the response of an accepted validate-cross-chain request reports
\* valid = TRUE exactly when the confidence the scoring function returned
\* is above 0.75 (0.75 itself is not valid), and a confidence between 0 and
\* 100 percent.
C4_ValidIffAboveThreshold ==
    (resp.op = "validate" /\ resp.status = 200) =>
        /\ resp.body.data.valid <=> (resp.raw > VALID_THRESHOLD)
        /\ resp.body.data.confidence >= 0
        /\ resp.body.data.confidence <= 100 * 100

\* C4 witness: a confidence of exactly 0.75 was answered valid = FALSE with
\* a confidence of 75.00.
C4_Witness ==
    /\ resp.op = "validate" /\ resp.status = 200
    /\ resp.raw = VALID_THRESHOLD
    /\ resp.body.data.valid = FALSE
    /\ resp.body.data.confidence = 7500

\* C5: the severity in the response of an anomaly-score operation is the one
\* band the score lies in: critical above 0.8, high in (0.6, 0.8], medium in
\* (0.4, 0.6], low up to 0.4.
C5_SeverityPartition ==
    (resp.op = "anomaly" /\ resp.status = 200) =>
        LET sev == resp.body.data.severity
        IN  /\ sev \in SEVERITIES
            /\ sev = "critical" <=> resp.raw > CRITICAL_ABOVE
            /\ sev = "high" <=> (resp.raw > HIGH_ABOVE /\ resp.raw <= CRITICAL_ABOVE)
            /\ sev = "medium" <=> (resp.raw > MEDIUM_ABOVE /\ resp.raw <= HIGH_ABOVE)
            /\ sev = "low" <=> resp.raw <= MEDIUM_ABOVE

\* C5 witness: a score of exactly 0.8 was answered with severity high.
C5_Witness ==
    /\ resp.op = "anomaly" /\ resp.status = 200
    /\ resp.raw = CRITICAL_ABOVE
    /\ resp.body.data.severity = "high"

\* C6: an anomaly-score operation appends its record to the alert log when
\* its score is above 0.7 and leaves the log alone otherwise (0.7 included);
\* every record it wrote has severity high or critical.
C6_AlertIffAboveThreshold ==
    /\ [](\A i \in 1..Len(alerts_log) :
             IsScoreAlert(alerts_log[i]) =>
                 alerts_log[i].severity \in {"high", "critical"})
    /\ [][Answered("anomaly") =>
             alerts_log' = IF resp'.raw > ALERT_ABOVE
                           THEN Append(alerts_log, resp'.body.data)
                           ELSE alerts_log]_vars

\* C6 witness: a score just above 0.7 left one alert of severity high, and a
\* later score of exactly 0.7 added none.
C6_Witness ==
    /\ resp.op = "anomaly" /\ resp.status = 200
    /\ resp.raw = ALERT_ABOVE
    /\ Len(decisions) = 2
    /\ Len(alerts_log) = 1
    /\ IsScoreAlert(alerts_log[1])
    /\ alerts_log[1].severity = "high"

\* The alert records get_anomaly_score wrote for transaction h.
ScoreAlerts(log, h) ==
    Cardinality({i \in 1..Len(log) :
                    IsScoreAlert(log[i]) /\ log[i].transaction_hash = h})

C8_HistoryCountsAccepted ==
    /\ [](Len(transaction_history) = accepted)
    /\ [][transaction_history' =
             IF Answered("validate")
             THEN Append(transaction_history, resp'.body.data)
             ELSE transaction_history]_vars

\* C8 witness: the same hash was validated twice, giving two entries, and a
\* malformed request after that added nothing.
C8_Witness ==
    /\ Len(transaction_history) = 2
    /\ transaction_history[1].transaction_hash
           = transaction_history[2].transaction_hash
    /\ accepted = 2
    /\ resp.op = "validate" /\ resp.status = 400
    /\ Len(decisions) = 3

\* The entries of history at the positions offset .. offset+limit-1, the
\* first entry being at position 0.
Page(history, offset, limit) ==
    LET positions == {q \in 0..(Len(history) - 1) :
                         q >= offset /\ q <= offset + limit - 1}
        n == Cardinality(positions)
        first == IF n = 0 THEN 0 ELSE CHOOSE q \in positions :
                                          \A r \in positions : q <= r
    IN  [k \in 1..n |-> history[first + k]]

\* C9 (as claimed): a history query answers with the entries at positions
\* offset .. offset+limit-1, never more than limit of them, and with total
\* the length of the history.
C9_HistoryPage ==
    (resp.op = "history" /\ resp.status = 200) =>
        LET d == resp.body.data
        IN  /\ d.transactions = Page(transaction_history, d.offset, d.limit)
            /\ Len(d.transactions) <= (IF d.limit < 0 THEN 0 ELSE d.limit)
            /\ d.total = Len(transaction_history)

\* C9 for limit >= 0 and offset >= 0, where the code agrees with the claim.
C9_HistoryPageNonNegative ==
    (resp.op = "history" /\ resp.status = 200
     /\ resp.body.data.limit >= 0 /\ resp.body.data.offset >= 0) =>
        LET d == resp.body.data
        IN  /\ d.transactions = Page(transaction_history, d.offset, d.limit)
            /\ Len(d.transactions) <= d.limit
            /\ d.total = Len(transaction_history)

\* C10 (as claimed): whichever endpoint appends a record to the alert log
\* appends exactly one, and when a webhook URL is configured it posts that
\* record to the webhook.
C10_SamePathForBothAlerts ==
    [][(alerts_log' # alerts_log) =>
          /\ Len(alerts_log') = Len(alerts_log) + 1
          /\ SubSeq(alerts_log', 1, Len(alerts_log)) = alerts_log
          /\ (WEBHOOK_URL # "" =>
                /\ Len(webhook_posts') = Len(webhook_posts) + 1
                /\ webhook_posts'[Len(webhook_posts')].json
                       = alerts_log'[Len(alerts_log')])]_vars

\* C10 for the manual submission alone, where the code agrees with the claim.
C10_ManualAlertPath ==
    [][Answered("alert") =>
          /\ Len(alerts_log') = Len(alerts_log) + 1
          /\ SubSeq(alerts_log', 1, Len(alerts_log)) = alerts_log
          /\ IF WEBHOOK_URL # ""
             THEN /\ Len(webhook_posts') = Len(webhook_posts) + 1
                  /\ webhook_posts'[Len(webhook_posts')].json
                         = alerts_log'[Len(alerts_log')]
             ELSE webhook_posts' = webhook_posts]_vars

\* The step made one call of requests.post, and the call raised.
PostRaised ==
    /\ Len(webhook_posts') = Len(webhook_posts) + 1
    /\ webhook_posts'[Len(webhook_posts')].outcome = "raised"

\* The alerts written by the manual submission.
ManualAlerts == SelectSeq(alerts_log, LAMBDA a : ~IsScoreAlert(a))

\* C11: a webhook post that raises reverses nothing: the step that made it
\* still appends the alert record to the log, answers 200 with the id of
\* the alert and no error, and leaves the validation history as it was; and
\* no step ever takes a record out of the alert log or the history.
C11_WebhookFailureKeepsRecord ==
    /\ [][PostRaised =>
             /\ alerts_log' = Append(alerts_log,
                                     webhook_posts'[Len(webhook_posts')].json)
             /\ resp'.op = "alert" /\ resp'.status = 200
             /\ resp'.body.success
             /\ resp'.body.data.alert_id = alerts_log'[Len(alerts_log')].request_id
             /\ transaction_history' = transaction_history]_vars
    /\ [][/\ Len(alerts_log') >= Len(alerts_log)
          /\ SubSeq(alerts_log', 1, Len(alerts_log)) = alerts_log
          /\ Len(transaction_history') >= Len(transaction_history)
          /\ SubSeq(transaction_history', 1, Len(transaction_history))
                 = transaction_history]_vars

\* C11 witness: a validation was recorded, then an alert whose webhook post
\* raised was answered 200; the alert is in the log and the history still
\* holds the validation.
C11_Witness ==
    /\ Len(transaction_history) = 1
    /\ Len(webhook_posts) = 1 /\ webhook_posts[1].outcome = "raised"
    /\ Len(alerts_log) = 1 /\ alerts_log[1] = webhook_posts[1].json
    /\ resp.op = "alert" /\ resp.status = 200

\* C12 (as claimed): an alert is reported as sent only when its webhook post
\* was made and returned; when the post raised, or no webhook is configured
\* and no post is made, the response does not say sent.
C12_SentOnlyWhenDelivered ==
    [][(Answered("alert") /\ resp'.body.data.sent) =>
          /\ Len(webhook_posts') = Len(webhook_posts) + 1
          /\ webhook_posts'[Len(webhook_posts')].outcome = "returned"]_vars

\* C13: every webhook post is made by the step that appends an alert record,
\* carries that record, and is the only post of the step; so there are
\* never more posts than manual alerts, the k-th post carries the k-th
\* alert that was dispatched, and a post that raised is not made again by
\* the same or by a later operation.
C13_AtMostOncePost ==
    /\ [][webhook_posts' # webhook_posts =>
             /\ Len(alerts_log') = Len(alerts_log) + 1
             /\ SubSeq(alerts_log', 1, Len(alerts_log)) = alerts_log
             /\ Len(webhook_posts') = Len(webhook_posts) + 1
             /\ SubSeq(webhook_posts', 1, Len(webhook_posts)) = webhook_posts
             /\ webhook_posts'[Len(webhook_posts')].json
                    = alerts_log'[Len(alerts_log')]]_vars
    /\ [](Len(webhook_posts) <= Len(ManualAlerts))

\* C13 witness: the post of the first request raised, two more requests of
\* other endpoints were served after it, and there is still only that post.
C13_Witness ==
    /\ Len(decisions) = 3
    /\ Len(webhook_posts) = 1 /\ webhook_posts[1].outcome = "raised"
    /\ Len(alerts_log) >= 1 /\ alerts_log[1] = webhook_posts[1].json
    /\ resp.op \in {"anomaly", "history", "validate"}

\* The JSON-RPC error a body carries is one that counts: the body is a
\* JSON object with an error member other than null and {}.
CarriesRpcError(body) ==
    /\ body.json
    /\ body.data # NullJson
    /\ "error" \in DOMAIN body.data
    /\ body.data.error \notin {NullJson, EmptyDict}

\* session.post returned a response that is a success: its status is not an
\* HTTP error, and its body is a JSON object without a JSON-RPC error.
Succeeded(outcome) ==
    /\ outcome.kind = "response"
    /\ outcome.status < 400
    /\ outcome.body.json
    /\ outcome.body.data # NullJson
    /\ ~CarriesRpcError(outcome.body)

\* The result the node delivered with the outcome, {} when it delivered
\* none.
Delivered(outcome) ==
    IF Succeeded(outcome) /\ "result" \in DOMAIN outcome.body.data
    THEN outcome.body.data.result
    ELSE EmptyDict

\* What _rpc_call returns when it has nothing to give.
NoResult == [raised |-> FALSE, value |-> EmptyDict]

\* C14: no exception leaves _rpc_call.  Whatever session.post does, the call
\* returns: the result member of the response when the response is a
\* success, and the empty result in every other case (connection error,
\* timeout, retries exhausted on an HTTP error status, HTTP error status,
\* body that is not a JSON object, non-empty JSON-RPC error).
C14_RpcCallNeverRaises ==
    rpc.pc = "done" =>
        /\ ~rpc.ret.raised
        /\ rpc.ret.value = Delivered(rpc.outcome)
        /\ (~Succeeded(rpc.outcome) => rpc.ret = NoResult)

\* C14 witness: the second call of a run, answered 200 with a body that is
\* not JSON, returned the empty result.
C14_Witness ==
    /\ rpc.pc = "done" /\ rpc.calls = 2
    /\ rpc.outcome = Response(200, NotJson)
    /\ rpc.ret = NoResult

\* C15 (as claimed): a call whose every HTTP request is answered with a
\* status of the forcelist makes at most 3 HTTP requests.
C15_AtMostThreeAttempts == rpc.only_status => rpc.attempts <= 3

\* C15 (amended): one call makes at most RETRY_TOTAL + 1 HTTP requests, the
\* first and RETRY_TOTAL retries.  A call whose every request is answered
\* with a status of the forcelist ends after exactly that many requests,
\* with RetryError inside and the empty result outside.
C15_AtMostFourAttempts ==
    /\ rpc.attempts <= RETRY_TOTAL + 1
    /\ (rpc.pc = "sending" => rpc.attempts <= RETRY_TOTAL)
    /\ (rpc.pc = "done" /\ rpc.only_status) =>
           /\ rpc.attempts = RETRY_TOTAL + 1
           /\ rpc.outcome = Raises("RetryError")
           /\ rpc.ret = NoResult

\* C15 witness: a call ended after RETRY_TOTAL + 1 requests that were all
\* answered with a status of the forcelist.
C15_Witness ==
    /\ rpc.pc = "done" /\ rpc.only_status
    /\ rpc.attempts = RETRY_TOTAL + 1
    /\ rpc.last.kind = "response" /\ rpc.last.status = 503

\* The reply is a response that the retry policy hands to _rpc_call and
\* whose body carries a JSON-RPC error.
RpcErrorReply(reply) ==
    /\ reply.kind = "response"
    /\ reply.status \notin STATUS_FORCELIST
    /\ CarriesRpcError(reply.body)

\* C16: a response that reaches _rpc_call with a non-empty JSON-RPC error
\* ends the call: the call returns the empty result at once, and a call
\* that has returned sends no further HTTP request (the next request
\* belongs to a new call).
C16_RpcErrorIsTerminal ==
    /\ [](RpcErrorReply(rpc.last) => rpc.pc = "done" /\ rpc.ret = NoResult)
    /\ [][rpc.pc = "done" =>
             rpc'.calls = rpc.calls + 1 /\ rpc'.attempts = 0]_vars

\* C16 witness: the first HTTP request of a call was answered 200 with a
\* JSON-RPC error next to a result, and the call is over after that one
\* request.
C16_Witness ==
    /\ rpc.pc = "done" /\ rpc.attempts = 1
    /\ rpc.last = Response(200, Json([error |-> RpcError,
                                      result |-> SyncInfo(Digits(5), FALSE)]))
    /\ rpc.ret = NoResult

\* The status call of a health check gave no result.
Unreachable(outcome) == Delivered(outcome) \in {EmptyDict, NullJson}

\* The height a status result reports, -1 when it has none that parses.
ReportedHeight(status) ==
    LET si == Get(status, "sync_info", EmptyDict)
    IN  IF "latest_block_height" \notin DOMAIN si THEN 0
        ELSE IF si.latest_block_height.digits THEN si.latest_block_height.value
        ELSE -1

\* The status result says that the node is catching up.
ReportsCatchingUp(status) ==
    LET si == Get(status, "sync_info", EmptyDict)
    IN  "catching_up" \in DOMAIN si /\ si.catching_up

\* C17: the answer of a health check is a function of the status response of
\* that check alone.  Without a result it is healthy = FALSE with height 0
\* (unreachable); with a result it is healthy exactly when the result does
\* not report catching_up and reports a height above 0, and not healthy
\* (syncing) when catching_up is reported or the height is missing or 0.
\* What an earlier check answered plays no part.
C17_HealthFromThisPollAlone ==
    health.outcome # NoReply =>
        LET st == Delivered(health.outcome)
            r == health.result
        IN  IF Unreachable(health.outcome)
            THEN r = HealthNotResponding
            ELSE /\ r.healthy <=> (~ReportsCatchingUp(st) /\ ReportedHeight(st) > 0)
                 /\ (ReportsCatchingUp(st) \/ ReportedHeight(st) = 0) => ~r.healthy
                 /\ ReportedHeight(st) >= 0 => r.height = ReportedHeight(st)

\* C17 witness: a check that found the node healthy was followed by a check
\* whose status call gave no result, and that check answered unreachable.
C17_Witness ==
    /\ health.prev = "healthy"
    /\ Unreachable(health.outcome)
    /\ health.result = HealthNotResponding

\* C18 (as claimed): from a status call without a result neither the health
\* check nor the node-status request derives healthy = FALSE, syncing = TRUE
\* or height = 0.
C18_NoVerdictFromAbsentResult ==
    /\ (health.outcome # NoReply /\ Unreachable(health.outcome)) =>
           ~(health.result.healthy = FALSE \/ health.result.height = 0)
    /\ (resp.op = "node_status" /\ resp.status = 200
        /\ Unreachable(resp.raw.health)) =>
           LET node == resp.body.data.node
           IN  ~(node.healthy = FALSE \/ node.syncing = TRUE \/ node.height = 0)

\* C19 (as claimed): a call of wait_for_sync makes at most max_attempts
\* health checks.
C19_AtMostMaxAttemptsPolls == wfs.polls <= wfs.max_attempts

\* What wait_for_sync does: a call that returns synced = TRUE made as many
\* checks as it reports attempts, at most max_attempts; a call that returns
\* synced = FALSE reports max_attempts attempts and made one check more.
C19_PollsOfWaitForSync ==
    /\ wfs.polls <= wfs.max_attempts + 1
    /\ (wfs.pc = "done" /\ wfs.ret.synced) =>
           wfs.polls = wfs.ret.attempts /\ wfs.polls <= wfs.max_attempts
    /\ (wfs.pc = "done" /\ ~wfs.ret.synced) =>
           wfs.ret.attempts = wfs.max_attempts /\ wfs.polls = wfs.max_attempts + 1

\* C20 (as claimed): once the caller has asked wait_for_sync to stop, the
\* call makes no further health check.
C20_NoPollAfterCancel ==
    [][cancel_requested => wfs'.polls = wfs.polls]_vars

\* The polls of the running call that observed the node healthy.
HealthyPolls == {j \in 1..Len(wfs.seen) : wfs.seen[j].healthy}

\* C27: wait_for_sync returns synced = TRUE with attempts = k exactly when
\* poll k is the first to answer healthy and k <= max_attempts; the height
\* it returns is the one of poll k, poll k is its last poll, and it has
\* slept the interval once between two polls of the loop and never after
\* the last round: k - 1 times when it returns at poll k, max_attempts - 1
\* times when the loop runs out.  A call that has returned polls and sleeps
\* no more.
C27_SyncedAtFirstHealthyPoll ==
    /\ [](wfs.pc = "done" =>
            LET early == {j \in HealthyPolls : j <= wfs.max_attempts}
            IN  /\ wfs.ret.synced <=> early # {}
                /\ wfs.ret.synced =>
                       LET k == wfs.ret.attempts
                       IN  /\ early = {k}
                           /\ wfs.polls = k /\ Len(wfs.seen) = k
                           /\ wfs.ret.height = wfs.seen[k].height
                           /\ wfs.slept = wfs.interval * (k - 1)
                /\ ~wfs.ret.synced =>
                       wfs.slept = wfs.interval * (wfs.max_attempts - 1))
    /\ [](wfs.pc \in {"loop", "sleep", "final"} =>
            wfs.slept = wfs.interval * wfs.attempt)
    /\ [][wfs.pc = "done" => wfs' = wfs]_vars

\* C27 witness: with max_attempts = 3 the third poll was the first to find
\* the node healthy: the call returned synced with attempts = 3 after two
\* sleeps.
C27_Witness ==
    /\ wfs.pc = "done" /\ wfs.max_attempts = 3
    /\ wfs.ret.synced /\ wfs.ret.attempts = 3
    /\ wfs.polls = 3 /\ wfs.slept = 2 * wfs.interval
    /\ wfs.ret.height = 5

\* C28 (as claimed): a call that returns synced = FALSE saw no poll answer
\* healthy, and the height it returns is the one of a poll that was not
\* healthy.
C28_NotSyncedOnlyIfNeverHealthy ==
    (wfs.pc = "done" /\ ~wfs.ret.synced) =>
        /\ HealthyPolls = {}
        /\ \E j \in 1..Len(wfs.seen) :
               ~wfs.seen[j].healthy /\ wfs.seen[j].height = wfs.ret.height

\* C29 (as claimed): a node-status response never reports healthy = TRUE
\* together with online = FALSE, and never online = TRUE together with
\* syncing = TRUE and a height of 0 that comes from a status call without a
\* result.
C29_NodeStatusConsistent ==
    (resp.op = "node_status" /\ resp.status = 200) =>
        LET node == resp.body.data.node
        IN  /\ ~(node.healthy /\ ~node.online)
            /\ ~(node.online /\ node.syncing /\ node.height = 0
                 /\ Unreachable(resp.raw.health))

(***************************************************************************)
(* The node process of a QIENodeManager.                                   *)
(***************************************************************************)
\* This step is a call of start_qie_node or stop_qie_node (op) that returns.
Called(op) == mgr_ret'.n = mgr_ret.n + 1 /\ mgr_ret'.op = op

\* The manager and the processes are as they were.
ManagerUntouched == UNCHANGED <<is_running, node_process, processes>>

\* C30: a QIENodeManager controls at most one node process.  In every state
\* is_running implies that a process handle is set, and at most one process
\* the manager spawned is alive.  start_qie_node while is_running returns
\* success false and spawns nothing; a start that is attempted and fails
\* leaves is_running false and no new process; stop_qie_node that returns
\* success true leaves is_running false, and a start made while is_running
\* is false is never refused as "already running"; stop_qie_node with no
\* running node returns success false and changes nothing.
C30_AtMostOneNodeProcess ==
    /\ [](is_running => node_process # NoProcess)
    /\ [](Cardinality(processes.alive) <= 1)
    /\ [][/\ (Called("start") /\ is_running)
              => (~mgr_ret'.success /\ ManagerUntouched)
          /\ (Called("start") /\ ~is_running /\ ~mgr_ret'.success)
              => (~is_running' /\ processes' = processes)
          /\ (Called("start") /\ ~is_running)
              => mgr_ret'.message # "Node is already running"
          /\ (Called("stop") /\ mgr_ret'.success) => ~is_running'
          /\ (Called("stop") /\ ~is_running)
              => (~mgr_ret'.success /\ ManagerUntouched)]_vars

\* A node was started, stopped and started again, and a further start was
\* refused while the second process was running.
C30_Witness ==
    /\ mgr_ret.op = "start" /\ ~mgr_ret.success
    /\ mgr_ret.message = "Node is already running"
    /\ is_running /\ node_process = 2 /\ processes.alive = {2}

(***************************************************************************)
(* The records the node queries return.                                    *)
(***************************************************************************)
\* The keys of the record the last query returned.
Keys == DOMAIN query.result

\* C26: every node query returns a record with the same set of keys on
\* every outcome of its RPC call, and get_latest_block always returns found,
\* height and message.
C26_SameKeysOnEveryOutcome ==
    query.op # "none" =>
        /\ \A o \in QueryOutcomes : DOMAIN QueryResult(query.op, o) = Keys
        /\ query.op = "get_latest_block" => {"found", "height", "message"} \subseteq Keys

(***************************************************************************)
(* The session scope of get_session.                                       *)
(***************************************************************************)
\* The scope was left.
Closed == sess.pc = "closed"

\* An exception was raised inside the scope, by the body or by the commit.
Failed == sess.exc # ""

\* The positions of call in the events of the scope.
Calls(call) == {k \in DOMAIN sess.events : sess.events[k] = call}

\* C21: a unit of work run in a session scope ends in one of two ways.  If
\* the body completed and the commit did not raise, the session was
\* committed and then closed, and nothing is raised; if the body or the
\* commit raised, the session was rolled back, that exception is the one
\* raised to the caller, and the session was closed.  The session is closed
\* at most once, as the last call on it, and exactly once when the scope is
\* left.
C21_CommitOrRollbackThenClose ==
    /\ Calls("close") \subseteq {Len(sess.events)}
    /\ Calls("close") # {} <=> Closed
    /\ (Closed /\ ~Failed) =>
           /\ sess.events = <<"open", "commit", "close">>
           /\ sess.raised = ""
    /\ (Closed /\ Failed) =>
           /\ sess.events \in {<<"open", "rollback", "close">>,
                               <<"open", "commit", "rollback", "close">>}
           /\ sess.raised = sess.exc

\* A scope whose commit raised IntegrityError was rolled back and closed,
\* and the IntegrityError reached the caller.
C21_Witness ==
    /\ Closed
    /\ sess.events = <<"open", "commit", "rollback", "close">>
    /\ sess.raised = "IntegrityError"

\* The exception of the scope was raised to the caller, after the rollback.
RolledBack == sess.raised # ""

\* C22: a unit of work that fails is rolled back fully: once its exception
\* was raised to the caller, the database is as the unit of work found it.
C22_FailedUnitLeavesNoTrace == RolledBack => db = sess.start

(***************************************************************************)
(* The rows of the database.                                               *)
(***************************************************************************)
\* C23: after any sequence of inserts and deletes, no Transaction refers to
\* a Bridge that was removed and no longer exists, and no AnomalyDetection
\* or Alert refers to a Transaction that was removed and no longer exists.
C23_NoOrphanRows ==
    /\ \A t \in db.transactions :
           t.bridge_id \in sess.gone.bridges => t.bridge_id \in Ids(db.bridges)
    /\ \A a \in db.anomalies \cup db.alerts :
           a.transaction_id \in sess.gone.transactions
               => a.transaction_id \in Ids(db.transactions)

\* The stored tx_hash values.
TxHashes(rows) == {t.tx_hash : t \in rows}

\* The Transactions of pending whose tx_hash is that of a stored Transaction.
Duplicates(pending) ==
    {k \in DOMAIN pending :
        /\ pending[k].op = "add" /\ pending[k].table = "transactions"
        /\ pending[k].row.tx_hash \in TxHashes(db.transactions)}

\* This step is a flush of the session.
Flushed == sess'.flushes = sess.flushes + 1

\* C24: tx_hash is globally unique.  No two stored Transactions have the
\* same tx_hash; a flush that inserts a Transaction whose tx_hash is that of
\* a stored Transaction raises IntegrityError and leaves the database as it
\* was; and no flush changes a stored Transaction, unless it deletes the
\* Bridge of that Transaction.
C24_TxHashUnique ==
    /\ [](\A t, u \in db.transactions : t.tx_hash = u.tx_hash => t = u)
    /\ [][Flushed =>
            /\ Duplicates(sess.pending) # {}
                  => (sess'.exc = "IntegrityError" /\ db' = db)
            /\ sess'.exc = "IntegrityError" => db' = db
            /\ \A t \in db.transactions :
                  t.bridge_id \notin Deleted(sess.pending)
                      => t \in db'.transactions]_vars

\* The insert of a Transaction with the tx_hash of a stored Transaction and
\* another value raised IntegrityError, and the stored Transaction has its
\* value.
C24_Witness ==
    /\ sess.exc = "IntegrityError"
    /\ \E k \in Duplicates(sess.pending) :
           \E t \in db.transactions :
               /\ t.tx_hash = sess.pending[k].row.tx_hash
               /\ t.value = 100 /\ sess.pending[k].row.value = 200

\* C25: in every persisted state, each Alert has resolved_at set if and only
\* if is_resolved is true.
C25_ResolvedAtIffResolved ==
    \A a \in db.alerts : (a.resolved_at # NoTime) <=> a.is_resolved

=============================================================================
